---- MODULE Spec2Model ----
(***************************************************************************)
(* Run queue, leasing and finalization protocol of xyn-seed                *)
(* (core/worker.py, core/blueprints/runner.py, core/api/runs.py,           *)
(* core/executor.py).                                                      *)
(*                                                                         *)
(* Time.  Every timestamp column is stored as its offset from the current  *)
(* wall clock: 0 is "now", negative is the past, positive the future.      *)
(* Tick lets one unit of time pass by lowering every stored offset by one. *)
(* A lease or transaction start older than LeaseHorizon is kept at         *)
(* -LeaseHorizon (only "expired" is left to know about it); the queue      *)
(* columns run_at, queued_at and created_at are kept at minus the horizon  *)
(* the specification passes to Tick.  SQL NOW() is the start time of the   *)
(* enclosing transaction, so a session keeps the offset of its transaction *)
(* start in txn_now.                                                       *)
(*                                                                         *)
(* Nullable columns hold <<>> for SQL NULL and <<v>> for the value v.      *)
(***************************************************************************)
EXTENDS Integers, Sequences, FiniteSets, TLC

\* ---------------------------------------------------------------- bounds
NumRuns == 3
QueueRuns == 2
ExecRuns == 1
Horizon == 1
LeaseHorizon == 1
MaxDelay == 1
MaxLapses == 1
MaxBatch == 1
MaxCancels == 1
MaxSimple == 1
InstallRuns == 2
\* The largest WORKER_BATCH_SIZE and the enqueued runs of the worker loop.
LoopBatch == 2
LoopRuns == 2
\* The longest wait of a wait_runs call that is told apart, in ticks.
MaxElapsed == 2

\* ------------------------------------------------------ program constants
\* LEASE_DURATION_SECONDS (environment knob, default 60), scaled to ticks.
LEASE_DURATION_SECONDS == 2
\* enqueue_run's default priority, and an urgent one.
DefaultPriority == 100
HighPriority == 10

RunIds == 1..NumRuns
Workers == {"worker-A", "worker-B"}
Priorities == {HighPriority, DefaultPriority}

NULL == <<>>
Some(v) == <<v>>
Val(x) == x[1]

EchoRef == "core.test.echo@v1"
SleepFailRef == "core.test.sleep@v1"
InstallRef == "core.pack.install@v1"
SystemInstallRef == "core.pack.system.install@v1"
OrchestratorRef == "core.test.orchestrator@v1"
UnknownRef == "not.registered@v1"

\* worker_loop imports the blueprint modules; every worker registers the same.
Registered == {EchoRef, SleepFailRef, InstallRef, SystemInstallRef, OrchestratorRef}
EnqueueRefs == {EchoRef, SleepFailRef, InstallRef, UnknownRef}

get_blueprint(ref) == IF ref \in Registered THEN Some(ref) ELSE NULL

Terminal == {"COMPLETED", "FAILED", "CANCELLED"}
Statuses == {"QUEUED", "CREATED", "RUNNING"} \cup Terminal

VARIABLES runs, rowlock, steps, events, wk, cancelling, sx, lapses, cancels,
          batch_size, edges, packs, pack_installations, advisory_locks,
          shutdown_requested, queue_depth

\* The pack registry, the installation records and the advisory locks.
installvars == <<packs, pack_installations, advisory_locks>>

vars == <<runs, rowlock, steps, events, wk, cancelling, sx, lapses, cancels,
          batch_size, edges, installvars, shutdown_requested, queue_depth>>

\* A slot of the runs table that holds no row yet.
NoRow ==
  [status |-> "ABSENT", name |-> "", priority |-> DefaultPriority,
   run_at |-> NULL, queued_at |-> NULL, created_at |-> NULL,
   locked_at |-> NULL, locked_by |-> NULL, lease_expires_at |-> NULL,
   started_at |-> NULL, completed_at |-> NULL,
   inputs |-> NULL, outputs |-> NULL, error |-> NULL, parent_run_id |-> NULL]

\* A worker process between two runs.
IdleWorker ==
  [pc |-> "poll", run |-> NULL, claimed |-> {}, lease |-> NULL, txn_now |-> NULL,
   pend |-> <<>>, exc |-> "", renewing |-> FALSE, step |-> NULL, inl |-> NULL,
   stage |-> 0, kids |-> <<>>, waited |-> NULL, elapsed |-> NULL,
   held |-> FALSE]

Exists(r) == runs[r].status # "ABSENT"

\* ------------------------------------------------------------------ time
Max(a, b) == IF a >= b THEN a ELSE b
Min(a, b) == IF a <= b THEN a ELSE b

\* One unit of time passes for a stored timestamp kept down to -h.
Older(x, h) == IF x = NULL THEN NULL ELSE Some(Max(Val(x) - 1, Min(Val(x), 0 - h)))

\* One unit of time passes for a time.time() - start_time kept up to
\* MaxElapsed.
Longer(x) == IF x = NULL THEN NULL ELSE Some(Min(Val(x) + 1, MaxElapsed))

\* NOW() as a session sees it: the start of its open transaction, else the
\* wall clock (the statement opens the transaction).
NOW(w) == IF wk[w].txn_now = NULL THEN 0 ELSE Val(wk[w].txn_now)

\* lease > now on stored offsets.  Two offsets both at -LeaseHorizon have
\* lost their order: either answer is possible.
LaterThan(a, b) ==
  IF a = 0 - LeaseHorizon /\ b = 0 - LeaseHorizon THEN BOOLEAN ELSE {a > b}

COALESCE4(a, b, c, d) ==
  IF a # NULL THEN Val(a) ELSE IF b # NULL THEN Val(b)
  ELSE IF c # NULL THEN Val(c) ELSE d

\* ------------------------------------------------------------- enqueue_run
\* The row enqueue_run adds to its session.
QueuedRow(ref, run_at, priority) ==
  [NoRow EXCEPT !.status = "QUEUED", !.name = ref,
                !.created_at = Some(0), !.queued_at = Some(0),
                !.run_at = IF run_at = NULL THEN Some(0) ELSE run_at,
                !.priority = priority]

enqueue_run(r, ref, run_at, priority) ==
  /\ ~Exists(r)
  /\ runs' = [runs EXCEPT ![r] = QueuedRow(ref, run_at, priority)]
  /\ UNCHANGED <<rowlock, steps, events, wk, cancelling, sx, lapses, cancels, batch_size, edges, installvars, shutdown_requested, queue_depth>>

\* --------------------------------------------------------------- claim_run
\* Mutant: a claim that does not look at run_at.
ClaimQueuedAnyTime(row) == row.status = "QUEUED"

\* The WHERE clause of the candidate CTE, evaluated at the claim's NOW() = 0.
ClaimQueuedReady(row) ==
  /\ row.status = "QUEUED"
  /\ COALESCE4(row.run_at, row.queued_at, row.created_at, 0) <= 0

\* Mutant: a claim that never takes a RUNNING row back.
ClaimNeverReclaims(row) == FALSE

ClaimLeaseExpired(row) ==
  /\ row.status = "RUNNING"
  /\ row.lease_expires_at # NULL
  /\ Val(row.lease_expires_at) < 0

Eligible(r) == ClaimQueuedReady(runs[r]) \/ ClaimLeaseExpired(runs[r])

\* ORDER BY priority ASC, CASE WHEN RUNNING THEN 0 ELSE 1 END,
\*          run_at ASC NULLS LAST, queued_at ASC NULLS LAST, created_at ASC
NullsLast(x) == IF x = NULL THEN MaxDelay + LEASE_DURATION_SECONDS + 1 ELSE Val(x)

ReclaimRank(row) == IF row.status = "RUNNING" THEN 0 ELSE 1

\* Mutant: reclaim-first ahead of priority.
OrderKeyReclaimFirst(row) ==
  <<ReclaimRank(row), row.priority, NullsLast(row.run_at),
    NullsLast(row.queued_at), NullsLast(row.created_at)>>

OrderKey(row) ==
  <<row.priority, ReclaimRank(row), NullsLast(row.run_at),
    NullsLast(row.queued_at), NullsLast(row.created_at)>>

RECURSIVE LexLess(_, _, _)
LexLess(a, b, i) ==
  IF i > Len(a) THEN FALSE
  ELSE IF a[i] < b[i] THEN TRUE
  ELSE IF a[i] > b[i] THEN FALSE
  ELSE LexLess(a, b, i + 1)

SortsBefore(rowa, rowb) == LexLess(OrderKey(rowa), OrderKey(rowb), 1)

\* Mutant: the candidate scan without SKIP LOCKED.
CandidatesIgnoringLocks == {r \in RunIds : Eligible(r)}

\* FOR UPDATE SKIP LOCKED: rows locked by another claim are passed over.
Candidates == {r \in RunIds : Eligible(r) /\ rowlock[r] = NULL}

\* The rows a claim may lock: the first LIMIT rows of the ordered candidates.
CandidateSets(limit) ==
  {S \in SUBSET Candidates :
     /\ Cardinality(S) = Min(limit, Cardinality(Candidates))
     /\ \A s \in S : \A t \in Candidates \ S : ~SortsBefore(runs[t], runs[s])}

\* The statement runs: rows are locked and updated in the claim's transaction.
\* fetchone() reads one of the returned ids.
\* worker_loop is about to call claim_run: it has passed the test of
\* `while not shutdown_requested`.  (A worker at "poll" stands before or
\* after the test, which is the same while the flag is unset; "checked" is
\* the worker the signal found between the test and the claim.)
AtClaim(w) ==
  \/ wk[w].pc = "poll" /\ ~shutdown_requested[w]
  \/ wk[w].pc = "checked"

ClaimStmt(w) ==
  /\ AtClaim(w)
  /\ Candidates # {}
  /\ \E S \in CandidateSets(batch_size) : \E r \in S :
       /\ rowlock' = [x \in RunIds |-> IF x \in S THEN Some(w) ELSE rowlock[x]]
       /\ wk' = [wk EXCEPT ![w].pc = "claimed", ![w].claimed = S,
                           ![w].run = Some(r), ![w].txn_now = Some(0),
                           ![w].lease = Some(0 + LEASE_DURATION_SECONDS)]
  /\ UNCHANGED <<runs, steps, events, cancelling, sx, lapses, cancels, batch_size, edges, installvars, shutdown_requested, queue_depth>>

\* No row returned: claim_run returns None and worker_loop sleeps until the
\* next tick.
ClaimEmpty(w) ==
  /\ AtClaim(w)
  /\ Candidates = {}
  /\ wk' = [wk EXCEPT ![w].pc = "sleep"]
  /\ UNCHANGED <<runs, rowlock, steps, events, cancelling, sx, lapses, cancels, batch_size, edges, installvars, shutdown_requested, queue_depth>>

\* The SET clause of the claim, with NOW() the claim transaction's start;
\* lease is NOW() + lease_seconds as it stands when the commit lands.
ClaimedRow(row, w, now, lease) ==
  [row EXCEPT !.status = "RUNNING",
              !.locked_at = Some(now),
              !.locked_by = Some(w),
              !.lease_expires_at = lease,
              !.started_at = IF row.started_at = NULL THEN Some(now)
                             ELSE row.started_at]

\* db.commit() of the claim; worker_loop goes on to execute_run_worker, which
\* starts the renewal task and calls execute_run.  execute_run loads the run
\* and resolves its blueprint; an unregistered reference raises ValueError
\* before the try block, so nothing finalizes the run and execute_run_worker
\* only logs.
ClaimCommit(w) ==
  /\ wk[w].pc = "claimed"
  /\ runs' = [x \in RunIds |->
       IF x \in wk[w].claimed THEN ClaimedRow(runs[x], w, NOW(w), wk[w].lease)
       ELSE runs[x]]
  /\ rowlock' = [x \in RunIds |-> IF x \in wk[w].claimed THEN NULL ELSE rowlock[x]]
  /\ wk' = IF get_blueprint(runs[Val(wk[w].run)].name) = NULL
           THEN [wk EXCEPT ![w] = IdleWorker]
           ELSE [wk EXCEPT ![w].pc = "step_start", ![w].claimed = {},
                           ![w].lease = NULL,
                           ![w].txn_now = Some(0), ![w].renewing = TRUE]
  /\ UNCHANGED <<steps, events, cancelling, sx, lapses, cancels, batch_size, edges, installvars, shutdown_requested, queue_depth>>

\* ------------------------------------------------------ the session's writes
\* A session's flushed, uncommitted writes, in order.
EventOp(r, name, step) == [op |-> "event", run |-> r, name |-> name, step |-> step]
StepInsertOp(r, idx, status) == [op |-> "insert", run |-> r, idx |-> idx, status |-> status]
StepUpdateOp(r, idx, status) == [op |-> "update", run |-> r, idx |-> idx, status |-> status]

RECURSIVE ApplyEvents(_, _, _)
ApplyEvents(ev, ops, w) ==
  IF ops = <<>> THEN ev
  ELSE LET o == Head(ops) IN
       ApplyEvents(
         IF o.op = "event"
         THEN [ev EXCEPT ![o.run] =
                 Append(@, [name |-> o.name, step |-> o.step, by |-> w])]
         ELSE ev,
         Tail(ops), w)

RECURSIVE ApplySteps(_, _, _)
ApplySteps(st, ops, w) ==
  IF ops = <<>> THEN st
  ELSE LET o == Head(ops) IN
       ApplySteps(
         IF o.op = "insert"
         THEN [st EXCEPT ![o.run] =
                 Append(@, [idx |-> o.idx, status |-> o.status, by |-> w])]
         ELSE IF o.op = "update"
         THEN [st EXCEPT ![o.run] =
                 [i \in DOMAIN @ |->
                    IF @[i].idx = o.idx /\ @[i].by = w
                    THEN [@[i] EXCEPT !.status = o.status] ELSE @[i]]]
         ELSE st,
         Tail(ops), w)

\* db.commit(): the session's writes become visible and its transaction ends.
Commit(w) ==
  /\ events' = ApplyEvents(events, wk[w].pend, w)
  /\ steps' = ApplySteps(steps, wk[w].pend, w)

\* A pending step row of this session: an insert, then its later updates.
RECURSIVE Squash(_)
Squash(ops) ==
  IF ops = <<>> THEN <<>>
  ELSE LET o == ops[Len(ops)]
           rest == Squash(SubSeq(ops, 1, Len(ops) - 1))
       IN IF o.op = "update" /\ \E i \in DOMAIN rest :
                rest[i].op = "insert" /\ rest[i].run = o.run /\ rest[i].idx = o.idx
          THEN [i \in DOMAIN rest |->
                  IF rest[i].op = "insert" /\ rest[i].run = o.run /\ rest[i].idx = o.idx
                  THEN [rest[i] EXCEPT !.status = o.status] ELSE rest[i]]
          ELSE Append(rest, o)

Flush(w, ops) == Squash(wk[w].pend \o ops)

PendingInserts(w, r) ==
  {i \in DOMAIN wk[w].pend : wk[w].pend[i].op = "insert" /\ wk[w].pend[i].run = r}

\* The transaction a statement runs in: the open one, else a new one.
Begin(w) == IF wk[w].txn_now = NULL THEN Some(0) ELSE wk[w].txn_now

\* ------------------------------------------------ RunContext.assert_ownership
\* Mutant: an ownership check that does not compare locked_by.
OwnershipRowAnyOwner(row, w, now) ==
  IF row.status = "RUNNING" /\ row.lease_expires_at # NULL
  THEN LaterThan(Val(row.lease_expires_at), now)
  ELSE {FALSE}

\* The possible results of the SELECT (TRUE: a row came back).
OwnershipRow(row, w, now) ==
  IF /\ row.status = "RUNNING"
     /\ row.locked_by = Some(w)
     /\ row.lease_expires_at # NULL
  THEN LaterThan(Val(row.lease_expires_at), now)
  ELSE {FALSE}

\* worker_id is None outside a worker (inline runs): the check is skipped.
assert_ownership(worker_id, row, now) ==
  IF worker_id = NULL THEN {TRUE} ELSE OwnershipRow(row, Val(worker_id), now)

Run(w) == Val(wk[w].run)

\* The ownership check of the worker's RunContext, in its execution session.
Owns(w) == assert_ownership(Some(w), runs[Run(w)], NOW(w))

\* ------------------------------------------------------------- execute_run
\* Consecutive ownership checks of one session with no commit between them
\* are one check here: the later ones read the same rows.
\*
\* ctx.emit_event("run.started") on the first step of an execution, then
\* RunContext.step up to the start boundary: idx = COUNT of the run's steps,
\* INSERT (flushed), ownership, RUNNING, step.started.  An insert of the same
\* (run_id, idx) by another open transaction makes this INSERT wait.
\* Mutant: indexes that start at 1.
StepCountFromOne(w, r) == Len(steps[r]) + Cardinality(PendingInserts(w, r)) + 1

StepCount(w, r) == Len(steps[r]) + Cardinality(PendingInserts(w, r))

\* UNIQUE (run_id, idx) on steps: the INSERT goes through when no other open
\* transaction has inserted the pair.  (A committed pair raises
\* IntegrityError; the retry counts again, which is the count taken here.)
uq_steps_run_idx(w, r, idx) ==
  \A o \in Workers \ {w} : \A i \in PendingInserts(o, r) : wk[o].pend[i].idx # idx

\* An install run with its inputs, before install_pack has asked for the
\* advisory lock.  (An install run enqueued without inputs stands for the
\* "Execute system installation" step alone.)
LockPending(w) ==
  /\ runs[Run(w)].name = InstallRef
  /\ runs[Run(w)].inputs # NULL
  /\ wk[w].stage = 0
  /\ ~wk[w].held

StepStart(w) ==
  /\ wk[w].pc = "step_start"
  /\ ~LockPending(w)
  /\ LET r == Run(w)
         idx == StepCount(w, r)
     IN /\ uq_steps_run_idx(w, r, idx)
        /\ \E ok \in Owns(w) :
             wk' = IF ok
                   THEN [wk EXCEPT ![w].pc = "step_start_commit",
                           ![w].txn_now = Begin(w), ![w].step = Some(idx),
                           ![w].pend = Flush(w,
                              (IF wk[w].stage = 0
                               THEN <<EventOp(r, "run.started", NULL)>> ELSE <<>>)
                              \o <<StepInsertOp(r, idx, "RUNNING"),
                                    EventOp(r, "step.started", Some(idx))>>)]
                   ELSE [wk EXCEPT ![w].pc = "fail_cas",
                           ![w].txn_now = Begin(w), ![w].exc = "LostLeaseError"]
  /\ UNCHANGED <<runs, rowlock, steps, events, cancelling, sx, lapses, cancels, batch_size, edges, installvars, shutdown_requested, queue_depth>>

\* Single commit: step RUNNING + step.started (and what was flushed before).
StepStartCommit(w) ==
  /\ wk[w].pc = "step_start_commit"
  /\ Commit(w)
  /\ wk' = [wk EXCEPT ![w].pc = "body", ![w].txn_now = NULL, ![w].pend = <<>>]
  /\ UNCHANGED <<runs, rowlock, cancelling, sx, lapses, cancels, batch_size, edges, installvars, shutdown_requested, queue_depth>>

\* The step body of the registered blueprints and the boundary after it:
\* emit_progress, then echo returns (ownership, COMPLETED, step.completed),
\* sleep with fail = True raises (the except branch: ownership, FAILED,
\* step.failed), install calls run_blueprint (of the install blueprint only
\* its "Execute system installation" step is modelled).  Without ownership
\* the except branch rolls the session back; the exception is re-raised
\* either way.
Body(w) ==
  /\ wk[w].pc = "body"
  /\ runs[Run(w)].name # OrchestratorRef
  /\ wk[w].held => wk[w].stage = 3
  /\ LET r == Run(w)
         ref == runs[r].name
         progress == EventOp(r, "step.progress", wk[w].step)
     IN
     \E ok \in Owns(w) :
       wk' = IF ~ok
             THEN [wk EXCEPT ![w].pc = "fail_cas", ![w].txn_now = NULL,
                     ![w].pend = <<>>, ![w].step = NULL,
                     ![w].exc = "LostLeaseError"]
             ELSE IF ref = InstallRef
             THEN [wk EXCEPT ![w].pc = "inline_create", ![w].txn_now = Begin(w),
                     ![w].pend = Flush(w, <<progress>>)]
             ELSE IF ref = SleepFailRef
             THEN [wk EXCEPT ![w].pc = "step_fail_commit", ![w].txn_now = Begin(w),
                     ![w].exc = "Exception",
                     ![w].pend = Flush(w, <<progress,
                                   StepUpdateOp(r, Val(wk[w].step), "FAILED"),
                                   EventOp(r, "step.failed", wk[w].step)>>)]
             ELSE [wk EXCEPT ![w].pc = "step_end_commit", ![w].txn_now = Begin(w),
                     ![w].pend = Flush(w, <<progress,
                                   StepUpdateOp(r, Val(wk[w].step), "COMPLETED"),
                                   EventOp(r, "step.completed", wk[w].step)>>)]
  /\ UNCHANGED <<runs, rowlock, steps, events, cancelling, sx, lapses, cancels, batch_size, edges, installvars, shutdown_requested, queue_depth>>

\* The completion boundary of the install step, after run_blueprint returned.
StepEnd(w) ==
  /\ wk[w].pc = "step_end"
  /\ LET r == Run(w) IN
     \E ok \in Owns(w) :
       wk' = IF ok
             THEN [wk EXCEPT ![w].pc = "step_end_commit", ![w].txn_now = Begin(w),
                     ![w].pend = Flush(w, <<StepUpdateOp(r, Val(wk[w].step), "COMPLETED"),
                                            EventOp(r, "step.completed", wk[w].step)>>)]
             ELSE [wk EXCEPT ![w].pc = "fail_cas", ![w].txn_now = NULL,
                     ![w].pend = <<>>, ![w].step = NULL,
                     ![w].exc = "LostLeaseError"]
  /\ UNCHANGED <<runs, rowlock, steps, events, cancelling, sx, lapses, cancels, batch_size, edges, installvars, shutdown_requested, queue_depth>>

\* run_blueprint raised inside the install step: the except branch of
\* RunContext.step (ownership, FAILED, step.failed; a rollback without
\* ownership), and the exception is re-raised.
\* Mutant: an exit that raises the failed ownership check in place of the
\* body's exception.
StepFailRaisesLostLease(w) ==
  /\ wk[w].pc = "step_fail"
  /\ LET r == Run(w) IN
     \E ok \in Owns(w) :
       wk' = IF ok
             THEN [wk EXCEPT ![w].pc = "step_fail_commit", ![w].txn_now = Begin(w),
                     ![w].pend = Flush(w, <<StepUpdateOp(r, Val(wk[w].step), "FAILED"),
                                            EventOp(r, "step.failed", wk[w].step)>>)]
             ELSE [wk EXCEPT ![w].pc = "fail_cas", ![w].txn_now = NULL,
                     ![w].pend = <<>>, ![w].step = NULL,
                     ![w].exc = "LostLeaseError"]
  /\ UNCHANGED <<runs, rowlock, steps, events, cancelling, sx, lapses, cancels, batch_size, edges, installvars, shutdown_requested, queue_depth>>

StepFail(w) ==
  /\ wk[w].pc = "step_fail"
  /\ LET r == Run(w) IN
     \E ok \in Owns(w) :
       wk' = IF ok
             THEN [wk EXCEPT ![w].pc = "step_fail_commit", ![w].txn_now = Begin(w),
                     ![w].pend = Flush(w, <<StepUpdateOp(r, Val(wk[w].step), "FAILED"),
                                            EventOp(r, "step.failed", wk[w].step)>>)]
             ELSE [wk EXCEPT ![w].pc = "fail_cas", ![w].txn_now = NULL,
                     ![w].pend = <<>>, ![w].step = NULL]
  /\ UNCHANGED <<runs, rowlock, steps, events, cancelling, sx, lapses, cancels, batch_size, edges, installvars, shutdown_requested, queue_depth>>

\* The steps _install_pack_locked opens for a pack without migrations:
\* "Validate pack", "Create installation record", "Execute system
\* installation", "Finalize installation".
InstallSteps == 4

\* Single commit: step COMPLETED + step.completed; the blueprint returns,
\* or the orchestrator goes on to its second step, or the install blueprint
\* to its next one.
StepEndCommit(w) ==
  /\ wk[w].pc = "step_end_commit"
  /\ Commit(w)
  /\ wk' = [wk EXCEPT ![w].pc = IF \/ runs[Run(w)].name = OrchestratorRef
                                      /\ wk[w].stage = 0
                                   \/ wk[w].held /\ wk[w].stage < InstallSteps
                                THEN "step_start" ELSE "cas_completed",
                      ![w].stage = IF wk[w].held /\ wk[w].stage < InstallSteps
                                   THEN wk[w].stage + 1 ELSE 1,
                      ![w].txn_now = NULL,
                      ![w].pend = <<>>, ![w].step = NULL]
  /\ UNCHANGED <<runs, rowlock, cancelling, sx, lapses, cancels, batch_size, edges, installvars, shutdown_requested, queue_depth>>

\* Single commit: step FAILED + step.failed; the exception is re-raised.
StepFailCommit(w) ==
  /\ wk[w].pc = "step_fail_commit"
  /\ Commit(w)
  /\ wk' = [wk EXCEPT ![w].pc = "fail_cas", ![w].txn_now = NULL,
                      ![w].pend = <<>>, ![w].step = NULL]
  /\ UNCHANGED <<runs, rowlock, cancelling, sx, lapses, cancels, batch_size, edges, installvars, shutdown_requested, queue_depth>>

\* ------------------------------------------------------------ the finalizer
\* Mutant: a finalizer that does not look at the lease.
FinalizeMatchesAnyLease(row, worker_id, now) ==
  IF row.status # "RUNNING" THEN {FALSE}
  ELSE IF worker_id = NULL THEN {TRUE}
  ELSE {row.locked_by = worker_id}

\* WHERE status = RUNNING AND (:worker_id IS NULL OR locked_by = :worker_id)
\*   AND (:worker_id IS NULL OR lease_expires_at > NOW())
FinalizeMatches(row, worker_id, now) ==
  IF row.status # "RUNNING" THEN {FALSE}
  ELSE IF worker_id = NULL THEN {TRUE}
  ELSE IF row.locked_by # worker_id \/ row.lease_expires_at = NULL THEN {FALSE}
  ELSE LaterThan(Val(row.lease_expires_at), now)

CompletedRow(row, now, outputs) ==
  [row EXCEPT !.status = "COMPLETED", !.completed_at = Some(now),
              !.outputs = Some(outputs)]

FailedRow(row, now, error) ==
  [row EXCEPT !.status = "FAILED", !.completed_at = Some(now),
              !.error = Some(error)]

\* The blueprint returned: CAS to COMPLETED and commit.  Zero rows raise
\* LostLeaseError inside the try block, which the except branch handles.
CasCompleted(w) ==
  /\ wk[w].pc = "cas_completed"
  /\ ~wk[w].held
  /\ rowlock[Run(w)] = NULL
  /\ \E ok \in FinalizeMatches(runs[Run(w)], Some(w), NOW(w)) :
       IF ok
       THEN /\ runs' = [runs EXCEPT ![Run(w)] = CompletedRow(@, NOW(w), w)]
            /\ wk' = [wk EXCEPT ![w].pc = "emit_completed", ![w].txn_now = NULL]
       ELSE /\ runs' = runs
            /\ wk' = [wk EXCEPT ![w].pc = "fail_cas", ![w].txn_now = NULL,
                                ![w].exc = "LostLeaseError"]
  /\ UNCHANGED <<rowlock, steps, events, cancelling, sx, lapses, cancels, batch_size, edges, installvars, shutdown_requested, queue_depth>>

\* except Exception of execute_run: rollback, CAS to FAILED at a fresh NOW(),
\* commit.  With a row, run.failed is emitted: its ownership check reads the
\* FAILED row, and a passed check flushes an event no commit follows.
\* Either way the exception leaves execute_run, execute_run_worker logs it,
\* cancels the renewal and closes the session.
FinalizeFailed(w, r, exc) ==
  \E ok \in FinalizeMatches(runs[r], Some(w), 0) :
    /\ runs' = IF ok THEN [runs EXCEPT ![r] = FailedRow(@, 0, exc)] ELSE runs
    /\ wk' = [wk EXCEPT ![w] = IdleWorker]

\* What leaves the except branch of execute_run for exception exc: with a
\* row, emit_event("run.failed") first checks ownership on the row the
\* update has just written, and a LostLeaseError raised there takes exc's place.
Reraised(row, worker_id, exc) ==
  {IF marked /\ ~own THEN "LostLeaseError" ELSE exc :
     marked \in FinalizeMatches(row, worker_id, 0),
     own \in assert_ownership(worker_id, FailedRow(row, 0, exc), 0)}

FailCas(w) ==
  /\ wk[w].pc = "fail_cas"
  /\ ~wk[w].held
  /\ rowlock[Run(w)] = NULL
  /\ FinalizeFailed(w, Run(w), wk[w].exc)
  /\ UNCHANGED <<rowlock, steps, events, cancelling, sx, lapses, cancels, batch_size, edges, installvars, shutdown_requested, queue_depth>>

\* db.refresh(run), then ctx.emit_event("run.completed"): the ownership check
\* reads the row the CAS just wrote.  A passed check flushes the event and
\* execute_run returns with no commit (the caller closes the session); a
\* failed one raises LostLeaseError into the except branch above.
EmitCompleted(w) ==
  /\ wk[w].pc = "emit_completed"
  /\ rowlock[Run(w)] = NULL
  /\ \E ok \in assert_ownership(Some(w), runs[Run(w)], 0) :
       IF ok
       THEN /\ runs' = runs
            /\ wk' = [wk EXCEPT ![w] = IdleWorker]
       ELSE FinalizeFailed(w, Run(w), "LostLeaseError")
  /\ UNCHANGED <<rowlock, steps, events, cancelling, sx, lapses, cancels, batch_size, edges, installvars, shutdown_requested, queue_depth>>

\* ------------------------------------------------------------ run_blueprint
FreeIds == {r \in RunIds : ~Exists(r)}
NextId == CHOOSE r \in FreeIds : \A o \in FreeIds : r <= o

\* The row run_blueprint inserts: RUNNING, started now, no queue columns.
InlineRow(ref) ==
  [NoRow EXCEPT !.status = "RUNNING", !.name = ref,
                !.created_at = Some(0), !.started_at = Some(0),
                !.run_at = Some(0)]

\* run_blueprint called in the install step: insert the nested run and commit
\* (the session's earlier writes go with it).
InlineCreate(w) ==
  /\ wk[w].pc = "inline_create"
  /\ FreeIds # {}
  /\ runs' = [runs EXCEPT ![NextId] = InlineRow(SystemInstallRef)]
  /\ Commit(w)
  /\ wk' = [wk EXCEPT ![w].pc = "inline_run", ![w].inl = Some(NextId),
                      ![w].txn_now = NULL, ![w].pend = <<>>]
  /\ UNCHANGED <<rowlock, cancelling, sx, lapses, cancels, batch_size, edges, installvars, shutdown_requested, queue_depth>>

\* execute_run(run.id, db) with worker_id None, the nested blueprint's own
\* steps left out: run.started is flushed, the CAS to COMPLETED commits it,
\* run.completed is flushed into the parent's session.  Zero rows raise
\* LostLeaseError, the FAILED CAS finds no RUNNING row either, and the
\* exception reaches the parent's step.
InlineRun(w) ==
  /\ wk[w].pc = "inline_run"
  /\ LET c == Val(wk[w].inl) IN
     \E ok \in FinalizeMatches(runs[c], NULL, 0) :
       IF ok
       THEN /\ runs' = [runs EXCEPT ![c] = CompletedRow(@, 0, w)]
            /\ events' = [events EXCEPT ![c] =
                 Append(@, [name |-> "run.started", step |-> NULL, by |-> w])]
            /\ wk' = [wk EXCEPT ![w].pc = "step_end", ![w].inl = NULL,
                        ![w].txn_now = Some(0),
                        ![w].pend = <<EventOp(c, "run.completed", NULL)>>]
       ELSE /\ runs' = runs
            /\ events' = events
            /\ wk' = [wk EXCEPT ![w].pc = "step_fail", ![w].inl = NULL,
                        ![w].txn_now = NULL, ![w].exc = "LostLeaseError"]
  /\ UNCHANGED <<rowlock, steps, cancelling, sx, lapses, cancels, batch_size, edges, installvars, shutdown_requested, queue_depth>>

\* ------------------------------------------------ core.test.orchestrator@v1
\* inputs.children of the run w executes: child specs [ref, child_key].
Children(w) == Val(runs[Run(w)].inputs).children

\* The child spec the spawn loop is at; child_run_ids holds the ids so far.
ChildSpec(w) == Children(w)[Len(wk[w].kids) + 1]

\* SELECT ... FROM run_edges WHERE parent_run_id = :p AND child_key = :k
EdgesFor(p, k) == {e \in edges : e.parent = p /\ e.child_key = k}

\* The partial unique index on (parent_run_id, child_key) of the migration
\* that creates run_edges: an insert passes when no row has the pair.
uq_run_edges_child_key(p, k) == EdgesFor(p, k) = {}

\* RunContext.spawn_run, fast path: an edge with the key returns its child.
SpawnLookup(w) ==
  /\ wk[w].pc = "body"
  /\ runs[Run(w)].name = OrchestratorRef
  /\ wk[w].stage = 0
  /\ LET existing == EdgesFor(Run(w), ChildSpec(w).child_key) IN
     wk' = IF existing # {}
           THEN [wk EXCEPT ![w].pc = "spawn_progress",
                   ![w].txn_now = Begin(w),
                   ![w].kids = Append(@, (CHOOSE e \in existing : TRUE).child_run_id)]
           ELSE [wk EXCEPT ![w].pc = "spawn_commit", ![w].txn_now = Begin(w)]
  /\ UNCHANGED <<runs, rowlock, steps, events, cancelling, sx, lapses, cancels,
                 batch_size, edges, installvars, shutdown_requested, queue_depth>>

ChildRowNoParent(ref, p) == QueuedRow(ref, NULL, runs[p].priority)

\* The child enqueue_run(commit=False) adds: QUEUED, due now, the parent's
\* priority, parent_run_id set.
ChildRow(ref, p) ==
  [QueuedRow(ref, NULL, runs[p].priority) EXCEPT !.parent_run_id = Some(p)]

RunEdgeNoKey(p, c, k) == [parent |-> p, child_run_id |-> c, child_key |-> ""]

RunEdge(p, c, k) == [parent |-> p, child_run_id |-> c, child_key |-> k]

RacedChildOwn(p, k) == NextId

\* spawn_run after IntegrityError: the edge re-read with .one(), its child.
RacedChild(p, k) == (CHOOSE e \in EdgesFor(p, k) : TRUE).child_run_id

\* spawn_run, db.commit(): the child and the edge are inserted and committed
\* with what the session had flushed.  IntegrityError: rollback (the session's
\* flushed writes go too), re-read the edge, return the winner's child
\* (position "spawn_raced").
SpawnCommit(w) ==
  /\ wk[w].pc = "spawn_commit"
  /\ LET p == Run(w)
         sp == ChildSpec(w)
     IN IF uq_run_edges_child_key(p, sp.child_key)
        THEN /\ FreeIds # {}
             /\ runs' = [runs EXCEPT ![NextId] = ChildRow(sp.ref, p)]
             /\ edges' = edges \cup {RunEdge(p, NextId, sp.child_key)}
             /\ Commit(w)
             /\ wk' = [wk EXCEPT ![w].pc = "spawn_emit", ![w].txn_now = NULL,
                         ![w].pend = <<>>, ![w].kids = Append(@, NextId)]
        ELSE /\ UNCHANGED <<runs, edges, steps, events>>
             /\ wk' = [wk EXCEPT ![w].pc = "spawn_raced", ![w].txn_now = Some(0),
                         ![w].pend = <<>>,
                         ![w].kids = Append(@, RacedChild(p, sp.child_key))]
  /\ UNCHANGED <<rowlock, cancelling, sx, lapses, cancels, batch_size, installvars, shutdown_requested, queue_depth>>

\* After spawn_run's commit emit_event("run.spawned"), and in either case the
\* orchestrator's emit_progress: ownership, flush.  LostLeaseError reaches the
\* step's except branch, which finds no ownership and rolls back.
SpawnProgress(w) ==
  /\ wk[w].pc \in {"spawn_emit", "spawn_progress", "spawn_raced"}
  /\ LET r == Run(w)
         spawned == IF wk[w].pc = "spawn_emit"
                    THEN <<EventOp(r, "run.spawned", wk[w].step)>> ELSE <<>>
     IN
     \E ok \in Owns(w) :
       wk' = IF ok
             THEN [wk EXCEPT ![w].pc = IF Len(wk[w].kids) < Len(Children(w))
                                       THEN "body" ELSE "step_end",
                     ![w].txn_now = Begin(w),
                     ![w].pend = Flush(w, spawned \o
                                   <<EventOp(r, "step.progress", wk[w].step)>>)]
             ELSE [wk EXCEPT ![w].pc = "fail_cas", ![w].txn_now = NULL,
                     ![w].pend = <<>>, ![w].step = NULL,
                     ![w].exc = "LostLeaseError"]
  /\ UNCHANGED <<runs, rowlock, steps, events, cancelling, sx, lapses, cancels,
                 batch_size, edges, installvars, shutdown_requested, queue_depth>>

\* ----------------------------------------------------- RunContext.wait_runs
\* The rows of the status query, by status.
RowsIn(ids, sts) ==
  {r \in RunIds : (\E i \in DOMAIN ids : ids[i] = r) /\ runs[r].status \in sts}

wait_all_no_fail_fast(ids) ==
  LET completed == RowsIn(ids, {"COMPLETED"})
      failed == RowsIn(ids, {"FAILED", "CANCELLED"})
      done == Cardinality(completed) + Cardinality(failed)
  IN IF done = Len(ids)
     THEN IF failed # {}
          THEN [do |-> "raise", completed |-> completed, failed |-> failed]
          ELSE [do |-> "return", completed |-> completed, failed |-> {}]
     ELSE [do |-> "poll", completed |-> completed, failed |-> failed]

\* policy = "all" at one poll: raise on a failed row, return when the rows
\* done are as many as the ids, else poll again.
wait_all(ids) ==
  LET completed == RowsIn(ids, {"COMPLETED"})
      failed == RowsIn(ids, {"FAILED", "CANCELLED"})
      done == Cardinality(completed) + Cardinality(failed)
  IN IF failed # {} THEN [do |-> "raise", completed |-> completed, failed |-> failed]
     ELSE IF done = Len(ids)
     THEN [do |-> "return", completed |-> completed, failed |-> {}]
     ELSE [do |-> "poll", completed |-> completed, failed |-> failed]

wait_any_no_early_return(ids) ==
  LET completed == RowsIn(ids, {"COMPLETED"})
      failed == RowsIn(ids, {"FAILED", "CANCELLED"})
      done == Cardinality(completed) + Cardinality(failed)
  IN IF completed # {} /\ done = Len(ids)
     THEN [do |-> "return", completed |-> completed, failed |-> failed]
     ELSE IF Cardinality(failed) = Len(ids)
     THEN [do |-> "raise", completed |-> completed, failed |-> failed]
     ELSE [do |-> "poll", completed |-> completed, failed |-> failed]

\* policy = "any" at one poll: return on a completed row with the rows seen
\* completed and failed, raise when the failed rows are as many as the ids,
\* else poll again.
wait_any(ids) ==
  LET completed == RowsIn(ids, {"COMPLETED"})
      failed == RowsIn(ids, {"FAILED", "CANCELLED"})
  IN IF completed # {}
     THEN [do |-> "return", completed |-> completed, failed |-> failed]
     ELSE IF Cardinality(failed) = Len(ids)
     THEN [do |-> "raise", completed |-> completed, failed |-> failed]
     ELSE [do |-> "poll", completed |-> completed, failed |-> failed]

\* The policy evaluation of one poll; a policy that is neither "all" nor
\* "any" matches no branch.
wait_policy(policy, ids) ==
  IF policy = "all" THEN wait_all(ids)
  ELSE IF policy = "any" THEN wait_any(ids)
  ELSE [do |-> "poll", completed |-> RowsIn(ids, {"COMPLETED"}),
        failed |-> RowsIn(ids, {"FAILED", "CANCELLED"})]

\* The orchestrator's mode input, the policy it passes to wait_runs.
Mode(w) == Val(runs[Run(w)].inputs).mode

\* The timeout the caller of wait_runs passes, in ticks; test_orchestrator
\* passes none.
Timeout(w) == Val(runs[Run(w)].inputs).timeout

\* time.time() - start_time at this iteration: start_time is taken when
\* wait_runs is entered.
Elapsed(w) == IF wk[w].elapsed = NULL THEN 0 ELSE Val(wk[w].elapsed)

\* if timeout and (time.time() - start_time) > timeout
TimedOut(timeout, elapsed) ==
  timeout # NULL /\ Val(timeout) # 0 /\ elapsed > Val(timeout)

\* One iteration of wait_runs in the orchestrator's second step: ownership,
\* the timeout, the status query (a fresh session), the policy, and then the
\* step's boundary (return: COMPLETED + step.completed; raise: FAILED +
\* step.failed) or emit_progress and asyncio.sleep.  The progress events an
\* open transaction has flushed poll after poll are kept once.  The elapsed
\* time is kept for a call with a timeout only: no other call reads it.
WaitPoll(w) ==
  /\ wk[w].pc \in {"body", "wait_sleep"}
  /\ runs[Run(w)].name = OrchestratorRef
  /\ wk[w].stage = 1
  /\ LET r == Run(w)
         res == wait_policy(Mode(w), wk[w].kids)
         progress == EventOp(r, "step.progress", wk[w].step)
         failing == <<StepUpdateOp(r, Val(wk[w].step), "FAILED"),
                      EventOp(r, "step.failed", wk[w].step)>>
     IN
     \E ok \in Owns(w) :
       wk' = IF ~ok
             THEN [wk EXCEPT ![w].pc = "fail_cas", ![w].txn_now = NULL,
                     ![w].pend = <<>>, ![w].step = NULL, ![w].elapsed = NULL,
                     ![w].exc = "LostLeaseError"]
             ELSE IF TimedOut(Timeout(w), Elapsed(w))
             THEN [wk EXCEPT ![w].pc = "step_fail_commit", ![w].txn_now = Begin(w),
                     ![w].exc = "TimeoutError", ![w].elapsed = NULL,
                     ![w].waited = Some([do |-> "timeout", completed |-> {},
                                         failed |-> {}]),
                     ![w].pend = Flush(w, failing)]
             ELSE IF res.do = "raise"
             THEN [wk EXCEPT ![w].pc = "step_fail_commit", ![w].txn_now = Begin(w),
                     ![w].exc = "Exception", ![w].waited = Some(res),
                     ![w].elapsed = NULL,
                     ![w].pend = Flush(w, failing)]
             ELSE IF res.do = "return"
             THEN [wk EXCEPT ![w].pc = "step_end_commit", ![w].txn_now = Begin(w),
                     ![w].waited = Some(res), ![w].elapsed = NULL,
                     ![w].pend = Flush(w, <<StepUpdateOp(r, Val(wk[w].step), "COMPLETED"),
                                            EventOp(r, "step.completed", wk[w].step)>>)]
             ELSE [wk EXCEPT ![w].pc = "wait_sleep", ![w].txn_now = Begin(w),
                     ![w].waited = Some(res),
                     ![w].elapsed = IF Timeout(w) = NULL THEN NULL
                                    ELSE Some(Elapsed(w)),
                     ![w].pend = IF progress \in {wk[w].pend[i] : i \in DOMAIN wk[w].pend}
                                 THEN wk[w].pend ELSE Flush(w, <<progress>>)]
  /\ UNCHANGED <<runs, rowlock, steps, events, cancelling, sx, lapses, cancels,
                 batch_size, edges, installvars, shutdown_requested, queue_depth>>

\* --------------------------------------------------------------- renew_lease
Executing(w) ==
  wk[w].pc \notin {"poll", "checked", "sleep", "claimed", "dead", "stopped"}

\* Mutant: a renewal that does not compare locked_by.
RenewMatchesAnyOwner(row, w) == row.status = "RUNNING"

RenewMatches(row, w) == row.status = "RUNNING" /\ row.locked_by = Some(w)

\* The renewal is a task on the executor's event loop and the session calls
\* of execute_run block that loop: the task runs only while the blueprint is
\* suspended in an await that yields: asyncio.sleep in the step body of
\* core.test.sleep@v1 and between two polls of wait_runs.
Suspended(w) ==
  /\ Executing(w)
  /\ \/ wk[w].pc = "body" /\ runs[Run(w)].name = SleepFailRef
     \/ wk[w].pc = "wait_sleep"

\* One tick of periodic_lease_renewal, on its own session (NOW() = 0).
\* Zero rows: renew_lease returns False and the renewal loop returns.
Renew(w) ==
  /\ Suspended(w)
  /\ wk[w].renewing
  /\ rowlock[Run(w)] = NULL
  /\ IF RenewMatches(runs[Run(w)], w)
     THEN /\ runs' = [runs EXCEPT ![Run(w)].lease_expires_at =
                        Some(0 + LEASE_DURATION_SECONDS)]
          /\ wk' = wk
     ELSE /\ runs' = runs
          /\ wk' = [wk EXCEPT ![w].renewing = FALSE]
  /\ UNCHANGED <<rowlock, steps, events, cancelling, sx, lapses, cancels, batch_size, edges, installvars, shutdown_requested, queue_depth>>

\* ------------------------------------------------- POST /runs/{id}/cancel
Cancellable(row) == row.status \in {"CREATED", "RUNNING"}

\* The handler loads the run and passes its status check.
CancelRead(r) ==
  /\ Exists(r)
  /\ r \notin cancelling
  /\ Cancellable(runs[r])
  /\ cancels < MaxCancels
  /\ cancels' = cancels + 1
  /\ cancelling' = cancelling \cup {r}
  /\ UNCHANGED <<runs, rowlock, steps, events, wk, sx, lapses, batch_size, edges, installvars, shutdown_requested, queue_depth>>

\* run.status = CANCELLED; db.commit(): UPDATE runs SET status WHERE id.
CancelWrite(r) ==
  /\ r \in cancelling
  /\ rowlock[r] = NULL
  /\ runs' = [runs EXCEPT ![r].status = "CANCELLED"]
  /\ cancelling' = cancelling \ {r}
  /\ UNCHANGED <<rowlock, steps, events, wk, sx, lapses, cancels, batch_size, edges, installvars, shutdown_requested, queue_depth>>

\* ------------------------------------------------------------ SimpleExecutor
\* create_run: a CREATED row with the column defaults.
SxCreate ==
  /\ FreeIds # {}
  /\ Cardinality(RunIds \ FreeIds) < QueueRuns
  /\ Cardinality({r \in RunIds : sx[r] # "none"}) < MaxSimple
  /\ runs' = [runs EXCEPT ![NextId] =
       [NoRow EXCEPT !.status = "CREATED", !.name = "simple",
                     !.created_at = Some(0), !.run_at = Some(0)]]
  /\ sx' = [sx EXCEPT ![NextId] = "created"]
  /\ UNCHANGED <<rowlock, steps, events, wk, cancelling, lapses, cancels, batch_size, edges, installvars, shutdown_requested, queue_depth>>

\* start_run: status and started_at are written whatever the row holds.
SxStart(r) ==
  /\ sx[r] = "created"
  /\ runs' = [runs EXCEPT ![r].status = "RUNNING", ![r].started_at = Some(0)]
  /\ sx' = [sx EXCEPT ![r] = "started"]
  /\ UNCHANGED <<rowlock, steps, events, wk, cancelling, lapses, cancels, batch_size, edges, installvars, shutdown_requested, queue_depth>>

\* complete_run: FAILED with the error, or COMPLETED with the outputs.
SxComplete(r, failed) ==
  /\ sx[r] = "started"
  /\ runs' = [runs EXCEPT ![r] =
       IF failed THEN FailedRow(@, 0, "Exception") ELSE CompletedRow(@, 0, "simple")]
  /\ sx' = [sx EXCEPT ![r] = "done"]
  /\ UNCHANGED <<rowlock, steps, events, wk, cancelling, lapses, cancels, batch_size, edges, installvars, shutdown_requested, queue_depth>>

\* execute_simple_run between start_run and complete_run: two steps, each
\* created, started and ended, and every write committed on its own before
\* the event that reports it is added and committed.
RECURSIVE SxWrites(_)
SxWrites(st) ==
  IF st = <<>> THEN 0
  ELSE (CASE Head(st).status = "CREATED" -> 1
          [] Head(st).status = "RUNNING" -> 2
          [] OTHER -> 3) + SxWrites(Tail(st))

SxStepEvents(r) == Cardinality({i \in DOMAIN events[r] : events[r][i].step # NULL})

\* The next write to a step row, and its commit.
SxStepWrite(r, failed) ==
  /\ sx[r] = "started"
  /\ SxWrites(steps[r]) = SxStepEvents(r)
  /\ SxWrites(steps[r]) < 6
  /\ LET idx == SxWrites(steps[r]) \div 3
         kind == SxWrites(steps[r]) % 3
     IN steps' = [steps EXCEPT ![r] =
          IF kind = 0
          THEN Append(@, [idx |-> idx, status |-> "CREATED", by |-> "SimpleExecutor"])
          ELSE [@ EXCEPT ![idx + 1].status =
                  IF kind = 1 THEN "RUNNING"
                  ELSE IF idx = 1 /\ failed THEN "FAILED" ELSE "COMPLETED"]]
  /\ UNCHANGED <<runs, rowlock, events, wk, cancelling, sx, lapses, cancels,
                 batch_size, edges, installvars, shutdown_requested, queue_depth>>

\* The event of the last write, and its commit.
SxStepEvent(r) ==
  /\ sx[r] = "started"
  /\ SxStepEvents(r) = SxWrites(steps[r]) - 1
  /\ LET last == steps[r][Len(steps[r])]
         name == CASE last.status = "CREATED" -> "xyn.step.created"
                   [] last.status = "RUNNING" -> "xyn.step.started"
                   [] last.status = "COMPLETED" -> "xyn.step.completed"
                   [] OTHER -> "xyn.step.failed"
     IN events' = [events EXCEPT ![r] =
          Append(@, [name |-> name, step |-> Some(last.idx), by |-> "SimpleExecutor"])]
  /\ UNCHANGED <<runs, rowlock, steps, wk, cancelling, sx, lapses, cancels,
                 batch_size, edges, installvars, shutdown_requested, queue_depth>>

\* complete_run at the end of execute_simple_run: with the error when the
\* second step failed.
SxFinish(r) ==
  /\ SxWrites(steps[r]) = 6
  /\ SxStepEvents(r) = 6
  /\ SxComplete(r, steps[r][2].status = "FAILED")

\* -------------------------------------------------------------- environment
\* A client enqueues a run: at most limit of them, the reference, priority
\* and delay drawn from the given sets.
Enqueue(refs, priorities, delays, limit) ==
  /\ FreeIds # {}
  /\ Cardinality(RunIds \ FreeIds) < limit
  /\ \E ref \in refs, d \in delays, p \in priorities :
       enqueue_run(NextId, ref, IF d = 0 THEN NULL ELSE Some(d), p)

Alive(w) == wk[w].pc # "dead"

\* The worker process dies: its sessions are closed, their open transactions
\* rolled back, its row locks and advisory locks released.  One worker at least stays up.
Crash(w) ==
  /\ Alive(w)
  /\ \E o \in Workers \ {w} : Alive(o)
  /\ wk' = [wk EXCEPT ![w] = [IdleWorker EXCEPT !.pc = "dead"]]
  /\ rowlock' = [x \in RunIds |-> IF rowlock[x] = Some(w) THEN NULL ELSE rowlock[x]]
  /\ advisory_locks' = IF advisory_locks = Some(w) THEN NULL ELSE advisory_locks
  /\ UNCHANGED <<runs, steps, events, cancelling, sx, lapses, cancels, batch_size, edges,
                 packs, pack_installations, shutdown_requested, queue_depth>>

\* The lease a busy worker relies on: the one its claim is about to write,
\* or the one on the row it executes.
HeldLease(w) ==
  IF wk[w].pc = "claimed" THEN wk[w].lease
  ELSE IF wk[w].run # NULL /\ RenewMatches(runs[Run(w)], w)
  THEN runs[Run(w)].lease_expires_at
  ELSE NULL

\* A tick that ends the lease of a worker whose renewal is (or is about to
\* be) running: the worker was too slow.  Renewal every
\* LEASE_DURATION_SECONDS // 2 keeps that from happening to a timely worker.
Lapsing ==
  \E w \in Workers :
    /\ wk[w].pc = "claimed" \/ (Executing(w) /\ wk[w].renewing)
    /\ HeldLease(w) = Some(1)

\* locked_at, started_at and completed_at are written and never compared:
\* they keep the offset they were written with.
AgedRow(row, h) ==
  [row EXCEPT !.run_at = Older(@, h), !.queued_at = Older(@, h),
              !.created_at = Older(@, h),
              !.lease_expires_at = Older(@, LeaseHorizon)]

\* One unit of time passes; asyncio.sleep(POLL_INTERVAL_SECONDS) of the
\* workers that sleep is over.
Tick(h) ==
  /\ IF Lapsing THEN lapses < MaxLapses /\ lapses' = lapses + 1
     ELSE lapses' = lapses
  /\ runs' = [r \in RunIds |-> AgedRow(runs[r], h)]
  /\ wk' = [w \in Workers |->
       [wk[w] EXCEPT !.txn_now = Older(@, LeaseHorizon),
                     !.lease = Older(@, LeaseHorizon),
                     !.elapsed = Longer(@),
                     !.pc = IF @ = "sleep" THEN "poll" ELSE @]]
  /\ UNCHANGED <<rowlock, steps, events, cancelling, sx, cancels, batch_size, edges, installvars, shutdown_requested, queue_depth>>

\* ------------------------------------------------------------ specification
Init ==
  /\ runs = [r \in RunIds |-> NoRow]
  /\ rowlock = [r \in RunIds |-> NULL]
  /\ steps = [r \in RunIds |-> <<>>]
  /\ events = [r \in RunIds |-> <<>>]
  /\ wk = [w \in Workers |-> IdleWorker]
  /\ cancelling = {}
  /\ sx = [r \in RunIds |-> "none"]
  /\ lapses = 0
  /\ cancels = 0
  /\ batch_size \in 1..MaxBatch
  /\ edges = {}
  /\ packs = NULL
  /\ pack_installations = {}
  /\ advisory_locks = NULL
  /\ shutdown_requested = [w \in Workers |-> FALSE]
  /\ queue_depth = [s \in Statuses |-> NULL]

\* worker_loop: poll, claim, commit.
ClaimStep(w) == ClaimStmt(w) \/ ClaimEmpty(w) \/ ClaimCommit(w)

\* execute_run on the blueprints that open one step and return or raise.
ExecuteStep(w) ==
  \/ StepStart(w) \/ StepStartCommit(w) \/ Body(w)
  \/ StepEndCommit(w) \/ StepFailCommit(w)
  \/ CasCompleted(w) \/ EmitCompleted(w) \/ FailCas(w)

\* The install blueprint's nested run.
InlineStep(w) == InlineCreate(w) \/ InlineRun(w) \/ StepEnd(w) \/ StepFail(w)

\* A worker between two runs is about to issue its next claim.
Polling == \E w \in Workers : wk[w].pc \in {"poll", "checked"}

\* A tick of a system whose live workers keep up: no busy worker's lease
\* runs out on it, and a worker's next claim is issued before it.
TimelyTick(h) == ~Lapsing /\ ~Polling /\ Tick(h)

\* The execution protocol: ExecRuns enqueued runs, ready at once and of
\* default priority, every blueprint, two workers, nested runs, cancel
\* requests, a crash, slow workers.
Next ==
  \/ Enqueue(EnqueueRefs, {DefaultPriority}, {0}, ExecRuns)
  \/ \E r \in RunIds : CancelRead(r)
  \/ \E r \in RunIds : CancelWrite(r)
  \/ \E w \in Workers : ClaimStep(w)
  \/ \E w \in Workers : ExecuteStep(w)
  \/ \E w \in Workers : InlineStep(w)
  \/ \E w \in Workers : Renew(w)
  \/ \E w \in Workers : Crash(w)
  \/ Tick(0)

Spec == Init /\ [][Next]_vars

\* The queue: runs of every priority and delay whose execution ends at once
\* (their reference is not registered), simple runs, cancel requests, two
\* polling workers, a crash, slow claims.
QueueNext ==
  \/ Enqueue({UnknownRef}, Priorities, 0..MaxDelay, QueueRuns)
  \/ SxCreate
  \/ \E r \in RunIds : SxStart(r)
  \/ \E r \in RunIds : \E failed \in BOOLEAN : SxComplete(r, failed)
  \/ \E r \in RunIds : CancelRead(r)
  \/ \E r \in RunIds : CancelWrite(r)
  \/ \E w \in Workers : ClaimStep(w)
  \/ \E w \in Workers : Crash(w)
  \/ Tick(Horizon)

QueueSpec == Init /\ [][QueueNext]_vars

\* The simple executor: one demonstration run, its two steps, cancel requests.
SimpleNext ==
  \/ SxCreate
  \/ \E r \in RunIds : SxStart(r)
  \/ \E r \in RunIds : \E failed \in BOOLEAN : SxStepWrite(r, failed)
  \/ \E r \in RunIds : SxStepEvent(r)
  \/ \E r \in RunIds : SxFinish(r)
  \/ \E r \in RunIds : CancelRead(r)
  \/ \E r \in RunIds : CancelWrite(r)
  \/ Tick(Horizon)

SimpleSpec == Init /\ [][SimpleNext]_vars

\* Progress: every worker that is up takes its next step, its renewal task
\* runs, and live workers poll and renew in time.  Time passes while a
\* worker sleeps between polls, however often it polls.  Nobody cancels.
LiveRefs == {EchoRef, SleepFailRef, UnknownRef}

LiveNext ==
  \/ Enqueue(LiveRefs, {DefaultPriority}, {0}, ExecRuns)
  \/ \E w \in Workers : ClaimStep(w)
  \/ \E w \in Workers : ExecuteStep(w)
  \/ \E w \in Workers : Renew(w)
  \/ \E w \in Workers : Crash(w)
  \/ TimelyTick(0)

Fairness ==
  /\ \A w \in Workers : WF_vars(ClaimStep(w))
  /\ \A w \in Workers : WF_vars(ExecuteStep(w))
  /\ \A w \in Workers : WF_vars(Renew(w))
  /\ SF_vars(TimelyTick(0))

LiveSpec == Init /\ [][LiveNext]_vars /\ Fairness

\* An orchestrator run is enqueued with one of the given inputs.
Spawned(k, ref) == [ref |-> ref, child_key |-> k]

EnqueueOrch(inputs) ==
  /\ FreeIds # {}
  /\ Cardinality({r \in RunIds : runs[r].name = OrchestratorRef}) < ExecRuns
  /\ \E i \in inputs :
       runs' = [runs EXCEPT ![NextId] =
                  [QueuedRow(OrchestratorRef, NULL, DefaultPriority)
                     EXCEPT !.inputs = Some(i)]]
  /\ UNCHANGED <<rowlock, steps, events, wk, cancelling, sx, lapses, cancels,
                 batch_size, edges, installvars, shutdown_requested, queue_depth>>

\* Spawning: one orchestrator run, executed by two workers when the first is
\* slow or crashes; its children name a blueprint no worker has, so that
\* their execution ends at the claim.
SpawnInputs ==
  {[children |-> c, mode |-> "all", timeout |-> NULL] : c \in
     {<<Spawned("k1", UnknownRef)>>,
      <<Spawned("k1", UnknownRef), Spawned("k1", UnknownRef)>>}}

SpawnNext ==
  \/ EnqueueOrch(SpawnInputs)
  \/ \E w \in Workers : ClaimStep(w)
  \/ \E w \in Workers : StepStart(w) \/ StepStartCommit(w) \/ StepEndCommit(w)
  \/ \E w \in Workers : SpawnLookup(w) \/ SpawnCommit(w) \/ SpawnProgress(w)
  \/ \E w \in Workers : StepEnd(w) \/ WaitPoll(w) \/ FailCas(w)
  \/ \E w \in Workers : Renew(w)
  \/ \E w \in Workers : Crash(w)
  \/ Tick(0)

SpawnSpec == Init /\ [][SpawnNext]_vars

\* Waiting: one orchestrator run whose children echo or fail, two workers
\* that keep up and execute parent and children, and a client that cancels.
OrchInputs ==
  {[children |-> c, mode |-> "all", timeout |-> NULL] : c \in
     {<<Spawned("k1", EchoRef)>>,
      <<Spawned("k1", EchoRef), Spawned("k1", EchoRef)>>,
      <<Spawned("k1", EchoRef), Spawned("k2", EchoRef)>>,
      <<Spawned("k1", EchoRef), Spawned("k2", SleepFailRef)>>}}

OrchStep(w) ==
  \/ SpawnLookup(w) \/ SpawnCommit(w) \/ SpawnProgress(w) \/ StepEnd(w)
  \/ WaitPoll(w)

OrchNext ==
  \/ EnqueueOrch(OrchInputs)
  \/ \E r \in RunIds : CancelRead(r)
  \/ \E r \in RunIds : CancelWrite(r)
  \/ \E w \in Workers : ClaimStep(w)
  \/ \E w \in Workers : ExecuteStep(w)
  \/ \E w \in Workers : OrchStep(w)
  \/ \E w \in Workers : Renew(w)
  \/ TimelyTick(0)

OrchSpec == Init /\ [][OrchNext]_vars

\* Waiting for any child: the orchestrator in mode "any" with children that
\* echo or fail, two workers that keep up, and a client that cancels.
AnyInputs ==
  {[children |-> c, mode |-> "any", timeout |-> NULL] : c \in
     {<<Spawned("k1", EchoRef), Spawned("k2", SleepFailRef)>>,
      <<Spawned("k1", SleepFailRef), Spawned("k2", SleepFailRef)>>}}

AnyNext ==
  \/ EnqueueOrch(AnyInputs)
  \/ \E r \in RunIds : CancelRead(r)
  \/ \E r \in RunIds : CancelWrite(r)
  \/ \E w \in Workers : ClaimStep(w)
  \/ \E w \in Workers : ExecuteStep(w)
  \/ \E w \in Workers : OrchStep(w)
  \/ \E w \in Workers : Renew(w)
  \/ TimelyTick(0)

AnySpec == Init /\ [][AnyNext]_vars

\* Waiting with and without a timeout: one orchestrator run with one echo
\* child, workers that keep up and take every step they can, of which one
\* may die.
WaitTimeouts == {NULL} \cup {Some(t) : t \in 0..(MaxElapsed - 1)}

WaitInputs ==
  {[children |-> <<Spawned("k1", EchoRef)>>, mode |-> "all", timeout |-> t] :
     t \in WaitTimeouts}

WaitNext ==
  \/ EnqueueOrch(WaitInputs)
  \/ \E w \in Workers : ClaimStep(w)
  \/ \E w \in Workers : ExecuteStep(w)
  \/ \E w \in Workers : OrchStep(w)
  \/ \E w \in Workers : Renew(w)
  \/ \E w \in Workers : Crash(w)
  \/ TimelyTick(0)

WaitFairness ==
  /\ Fairness
  /\ \A w \in Workers : WF_vars(OrchStep(w))

WaitLiveSpec == Init /\ [][WaitNext]_vars /\ WaitFairness

\* ----------------------------------------------------- core.pack.install@v1
\* The environment and the pack the install runs are about.
EnvId == "local-dev"
PackRef == "core.domain@v1"

InstallInputs == {[pack_ref |-> PackRef, env_id |-> EnvId]}

\* Pack rows of the registry: version is NOT NULL (a string, empty or not),
\* schema_name is nullable.
PackRows ==
  {[version |-> v, schema_name |-> n] :
     v \in {"1.0.0", ""}, n \in {Some("pack_core_domain"), NULL}}

\* pg_try_advisory_lock: granted when no other session holds the key (the
\* lock is re-entrant for the session that holds it).
try_advisory_lock(w) == advisory_locks = NULL \/ advisory_locks = Some(w)

\* Mutant: an unlock that leaves the key with its holder.
advisory_unlock_keeps(w) == advisory_locks

\* pg_advisory_unlock: the key table after session w's unlock; a key another
\* session holds stays with it.
advisory_unlock(w) == IF advisory_locks = Some(w) THEN NULL ELSE advisory_locks

\* install_pack up to the with-block: run.started of execute_run, then
\* advisory_lock_context(ctx.db, lock_key, fail_fast=True).  A key another
\* session holds raises AdvisoryLockUnavailableError before the try block,
\* which install_pack turns into PackInstallationInProgressError.
TryLock(w) ==
  /\ wk[w].pc = "step_start"
  /\ LockPending(w)
  /\ \E ok \in Owns(w) :
       IF ~ok
       THEN /\ wk' = [wk EXCEPT ![w].pc = "fail_cas", ![w].txn_now = Begin(w),
                        ![w].exc = "LostLeaseError"]
            /\ advisory_locks' = advisory_locks
       ELSE IF try_advisory_lock(w)
       THEN /\ advisory_locks' = Some(w)
            /\ wk' = [wk EXCEPT ![w].held = TRUE, ![w].stage = 1,
                        ![w].txn_now = Begin(w),
                        ![w].pend = Flush(w, <<EventOp(Run(w), "run.started", NULL)>>)]
       ELSE /\ advisory_locks' = advisory_locks
            /\ wk' = [wk EXCEPT ![w].pc = "fail_cas", ![w].txn_now = Begin(w),
                        ![w].exc = "PackInstallationInProgressError"]
  /\ UNCHANGED <<runs, rowlock, steps, events, cancelling, sx, lapses, cancels,
                 batch_size, edges, packs, pack_installations, shutdown_requested, queue_depth>>

\* The finally branch of advisory_lock_context, on the way out of the
\* with-block: install_pack returned, or an exception passes through.
Unlock(w) ==
  /\ wk[w].pc \in {"cas_completed", "fail_cas"}
  /\ wk[w].held
  /\ advisory_locks' = advisory_unlock(w)
  /\ wk' = [wk EXCEPT ![w].held = FALSE, ![w].txn_now = Begin(w)]
  /\ UNCHANGED <<runs, rowlock, steps, events, cancelling, sx, lapses, cancels,
                 batch_size, edges, packs, pack_installations, shutdown_requested, queue_depth>>

\* Step "Validate pack": emit_progress, then the pack query; no pack raises
\* ValueError into the step's except branch.
Validate(w) ==
  /\ wk[w].pc = "body"
  /\ wk[w].held
  /\ wk[w].stage = 1
  /\ LET r == Run(w)
         progress == EventOp(r, "step.progress", wk[w].step)
     IN
     \E ok \in Owns(w) :
       wk' = IF ~ok
             THEN [wk EXCEPT ![w].pc = "fail_cas", ![w].txn_now = NULL,
                     ![w].pend = <<>>, ![w].step = NULL,
                     ![w].exc = "LostLeaseError"]
             ELSE IF packs = NULL
             THEN [wk EXCEPT ![w].pc = "step_fail_commit", ![w].txn_now = Begin(w),
                     ![w].exc = "ValueError",
                     ![w].pend = Flush(w, <<progress,
                                   StepUpdateOp(r, Val(wk[w].step), "FAILED"),
                                   EventOp(r, "step.failed", wk[w].step)>>)]
             ELSE [wk EXCEPT ![w].pc = "step_end_commit", ![w].txn_now = Begin(w),
                     ![w].pend = Flush(w, <<progress,
                                   StepUpdateOp(r, Val(wk[w].step), "COMPLETED"),
                                   EventOp(r, "step.completed", wk[w].step)>>)]
  /\ UNCHANGED <<runs, rowlock, steps, events, cancelling, sx, lapses, cancels,
                 batch_size, edges, installvars, shutdown_requested, queue_depth>>

\* The installation rows of an (env_id, pack_ref).
InstallationsOf(env_id, pack_ref) ==
  {i \in pack_installations : i.env_id = env_id /\ i.pack_ref = pack_ref}

\* Mutant: a table without the unique constraint.
uq_never_conflicts(env_id, pack_ref) == TRUE

\* UniqueConstraint("env_id", "pack_ref"): the INSERT goes through when the
\* pair has no row.
uq_pack_installations_env_pack(env_id, pack_ref) ==
  InstallationsOf(env_id, pack_ref) = {}

\* The row the insert of "Create installation record" claims for run r.
InstallingRow(r, env_id, pack_ref) ==
  [id |-> r, env_id |-> env_id, pack_ref |-> pack_ref, status |-> "INSTALLING",
   schema_name |-> Val(packs).schema_name, installed_by_run_id |-> r,
   installed_version |-> NULL, installed_at |-> NULL]

\* The error the conflict branch raises for the existing row's status.
ConflictError(status) ==
  IF status = "INSTALLED" THEN "PackAlreadyInstalledError"
  ELSE IF status = "FAILED" THEN "PackInstallationFailedError"
  ELSE "PackInstallationInProgressError"

\* Step "Create installation record": INSERT ... ON CONFLICT DO NOTHING
\* RETURNING, commit; no row returned means the pair has one, and its
\* status picks the error.  The step's exit follows (StepEnd, StepFail).
ClaimInstallation(w) ==
  /\ wk[w].pc = "body"
  /\ wk[w].held
  /\ wk[w].stage = 2
  /\ LET r == Run(w)
         inputs == Val(runs[r].inputs)
     IN
     IF uq_pack_installations_env_pack(inputs.env_id, inputs.pack_ref)
     THEN /\ pack_installations' = pack_installations \cup
               {InstallingRow(r, inputs.env_id, inputs.pack_ref)}
          /\ wk' = [wk EXCEPT ![w].pc = "step_end", ![w].txn_now = NULL,
                      ![w].pend = <<>>]
     ELSE /\ pack_installations' = pack_installations
          /\ wk' = [wk EXCEPT ![w].pc = "step_fail", ![w].txn_now = NULL,
                      ![w].pend = <<>>,
                      ![w].exc = ConflictError(
                         (CHOOSE i \in InstallationsOf(inputs.env_id, inputs.pack_ref) :
                            TRUE).status)]
  /\ Commit(w)
  /\ UNCHANGED <<runs, rowlock, cancelling, sx, lapses, cancels, batch_size, edges,
                 packs, advisory_locks, shutdown_requested, queue_depth>>

\* Mutant: a finalizer that does not look at schema_name and version.
FinalizeErrorUnchecked(locked, r) ==
  IF locked.installed_by_run_id # r THEN "PackInstallationConflictError"
  ELSE IF locked.status # "INSTALLING" THEN "PackInstallationConflictError"
  ELSE ""

\* The checks of "Finalize installation" on the locked row, in the code's
\* order: the error raised, or "" when the row may be finalized.
FinalizeError(locked, r) ==
  IF locked.installed_by_run_id # r THEN "PackInstallationConflictError"
  ELSE IF locked.status # "INSTALLING" THEN "PackInstallationConflictError"
  ELSE IF locked.schema_name = NULL \/ Val(locked.schema_name) = ""
  THEN "PackInstallationInvariantError"
  ELSE IF Val(packs).version = "" THEN "PackInstallationInvariantError"
  ELSE ""

\* The row after the transition to INSTALLED.
InstalledRow(locked) ==
  [locked EXCEPT !.status = "INSTALLED",
                 !.installed_version = Some(Val(packs).version),
                 !.installed_at = Some(0)]

\* Step "Finalize installation": emit_progress, the row this run inserted
\* re-read FOR UPDATE; an INSTALLED row is returned as it is, another one is
\* checked, written and committed.  (Only the run that inserted the row
\* comes here, so no second session waits for the row lock.)
Finalize(w) ==
  /\ wk[w].pc = "body"
  /\ wk[w].held
  /\ wk[w].stage = InstallSteps
  /\ LET r == Run(w)
         progress == EventOp(r, "step.progress", wk[w].step)
         found == {i \in pack_installations : i.id = r}
         failed(exc) ==
           [wk EXCEPT ![w].pc = "step_fail_commit", ![w].txn_now = Begin(w),
              ![w].exc = exc,
              ![w].pend = Flush(w, <<progress,
                            StepUpdateOp(r, Val(wk[w].step), "FAILED"),
                            EventOp(r, "step.failed", wk[w].step)>>)]
     IN
     \E ok \in Owns(w) :
       IF ~ok
       THEN /\ wk' = [wk EXCEPT ![w].pc = "fail_cas", ![w].txn_now = NULL,
                        ![w].pend = <<>>, ![w].step = NULL,
                        ![w].exc = "LostLeaseError"]
            /\ UNCHANGED <<pack_installations, events, steps>>
       ELSE IF found = {}
       THEN /\ wk' = failed("NoResultFound")
            /\ UNCHANGED <<pack_installations, events, steps>>
       ELSE LET locked == CHOOSE i \in found : TRUE IN
            IF locked.status = "INSTALLED"
            THEN /\ wk' = [wk EXCEPT ![w].pc = "step_end_commit",
                             ![w].txn_now = Begin(w),
                             ![w].pend = Flush(w, <<progress, progress,
                                   StepUpdateOp(r, Val(wk[w].step), "COMPLETED"),
                                   EventOp(r, "step.completed", wk[w].step)>>)]
                 /\ UNCHANGED <<pack_installations, events, steps>>
            ELSE IF FinalizeError(locked, r) # ""
            THEN /\ wk' = failed(FinalizeError(locked, r))
                 /\ UNCHANGED <<pack_installations, events, steps>>
            ELSE /\ pack_installations' =
                      (pack_installations \ {locked}) \cup {InstalledRow(locked)}
                 /\ events' = ApplyEvents(events, Flush(w, <<progress>>), w)
                 /\ steps' = ApplySteps(steps, Flush(w, <<progress>>), w)
                 /\ wk' = [wk EXCEPT ![w].pc = "step_end", ![w].txn_now = NULL,
                             ![w].pend = <<>>]
  /\ UNCHANGED <<runs, rowlock, cancelling, sx, lapses, cancels, batch_size, edges,
                 packs, advisory_locks, shutdown_requested, queue_depth>>

\* scripts/seed_packs.py: the pack is registered.
SeedPack ==
  /\ packs = NULL
  /\ \E p \in PackRows : packs' = Some(p)
  /\ UNCHANGED <<runs, rowlock, steps, events, wk, cancelling, sx, lapses, cancels,
                 batch_size, edges, pack_installations, advisory_locks, shutdown_requested, queue_depth>>

\* enqueue_run("core.pack.install@v1", inputs).
EnqueueInstall(inputs) ==
  /\ FreeIds # {}
  /\ Cardinality({r \in RunIds : runs[r].name = InstallRef}) < InstallRuns
  /\ \E i \in inputs :
       runs' = [runs EXCEPT ![NextId] =
                  [QueuedRow(InstallRef, NULL, DefaultPriority)
                     EXCEPT !.inputs = Some(i)]]
  /\ UNCHANGED <<rowlock, steps, events, wk, cancelling, sx, lapses, cancels,
                 batch_size, edges, installvars, shutdown_requested, queue_depth>>

\* execute_run on the install blueprint.
InstallStep(w) ==
  \/ TryLock(w) \/ Validate(w) \/ ClaimInstallation(w) \/ Finalize(w) \/ Unlock(w)

\* Pack installation: install runs of one (env_id, pack_ref), a registry
\* with or without the pack, two workers that keep up, a crash.
InstallNext ==
  \/ EnqueueInstall(InstallInputs)
  \/ SeedPack
  \/ \E w \in Workers : ClaimStep(w)
  \/ \E w \in Workers : ExecuteStep(w)
  \/ \E w \in Workers : InlineStep(w)
  \/ \E w \in Workers : InstallStep(w)
  \/ \E w \in Workers : Crash(w)
  \/ TimelyTick(0)

InstallSpec == Init /\ [][InstallNext]_vars

\* ------------------------------------------------------------- worker_loop
\* handle_shutdown: SIGINT or SIGTERM sets the flag, between any two steps
\* of the process; a worker about to claim may already be past the loop's
\* test.
handle_shutdown(w) ==
  /\ wk[w].pc \notin {"dead", "stopped"}
  /\ ~shutdown_requested[w]
  /\ shutdown_requested' = [shutdown_requested EXCEPT ![w] = TRUE]
  /\ \/ wk' = wk
     \/ wk[w].pc = "poll" /\ wk' = [wk EXCEPT ![w].pc = "checked"]
  /\ UNCHANGED <<runs, rowlock, steps, events, cancelling, sx, lapses, cancels,
                 batch_size, edges, installvars, queue_depth>>

\* `while not shutdown_requested` is false: worker_loop returns.
LoopExit(w) ==
  /\ wk[w].pc = "poll"
  /\ shutdown_requested[w]
  /\ wk' = [wk EXCEPT ![w].pc = "stopped"]
  /\ UNCHANGED <<runs, rowlock, steps, events, cancelling, sx, lapses, cancels,
                 batch_size, edges, installvars, shutdown_requested, queue_depth>>

\* Workers configured with WORKER_BATCH_SIZE up to LoopBatch.
LoopInit ==
  /\ runs = [r \in RunIds |-> NoRow]
  /\ rowlock = [r \in RunIds |-> NULL]
  /\ steps = [r \in RunIds |-> <<>>]
  /\ events = [r \in RunIds |-> <<>>]
  /\ wk = [w \in Workers |-> IdleWorker]
  /\ cancelling = {}
  /\ sx = [r \in RunIds |-> "none"]
  /\ lapses = 0
  /\ cancels = 0
  /\ batch_size \in 1..LoopBatch
  /\ edges = {}
  /\ packs = NULL
  /\ pack_installations = {}
  /\ advisory_locks = NULL
  /\ shutdown_requested = [w \in Workers |-> FALSE]
  /\ queue_depth = [s \in Statuses |-> NULL]

LoopRefs == {EchoRef, SleepFailRef}

\* The worker loop: runs of the echo and the failing sleep blueprint, every
\* batch size, two workers that keep up, shutdown signals.
LoopNext ==
  \/ Enqueue(LoopRefs, {DefaultPriority}, {0}, LoopRuns)
  \/ \E w \in Workers : ClaimStep(w)
  \/ \E w \in Workers : ExecuteStep(w)
  \/ \E w \in Workers : Renew(w)
  \/ \E w \in Workers : handle_shutdown(w)
  \/ \E w \in Workers : LoopExit(w)
  \/ TimelyTick(0)

LoopSpec == LoopInit /\ [][LoopNext]_vars

\* Pack installation by workers that keep taking steps.
InstallLiveNext ==
  \/ EnqueueInstall(InstallInputs)
  \/ SeedPack
  \/ \E w \in Workers : ClaimStep(w)
  \/ \E w \in Workers : ExecuteStep(w)
  \/ \E w \in Workers : InlineStep(w)
  \/ \E w \in Workers : InstallStep(w)
  \/ TimelyTick(0)

InstallFairness ==
  /\ \A w \in Workers : WF_vars(ClaimStep(w))
  /\ \A w \in Workers : WF_vars(ExecuteStep(w))
  /\ \A w \in Workers : WF_vars(InlineStep(w))
  /\ \A w \in Workers : WF_vars(InstallStep(w))
  /\ SF_vars(TimelyTick(0))

InstallLiveSpec == Init /\ [][InstallLiveNext]_vars /\ InstallFairness

\* Failing steps of a run that is cancelled meanwhile: the install runs, a
\* registry with or without the pack, cancel requests, two workers.
StepFailNext ==
  \/ EnqueueInstall(InstallInputs)
  \/ SeedPack
  \/ \E r \in RunIds : CancelRead(r)
  \/ \E r \in RunIds : CancelWrite(r)
  \/ \E w \in Workers : ClaimStep(w)
  \/ \E w \in Workers : ExecuteStep(w)
  \/ \E w \in Workers : InlineStep(w)
  \/ \E w \in Workers : InstallStep(w)
  \/ TimelyTick(0)

StepFailSpec == Init /\ [][StepFailNext]_vars

\* ------------------------------------------------------ a failing renewal
\* One tick of periodic_lease_renewal whose statement raises (the database is
\* unreachable for a moment): renew_lease rolls back and returns False, and
\* the renewal loop returns.  (At most MaxLapses such ticks.)
RenewFails(w) ==
  /\ Suspended(w)
  /\ wk[w].renewing
  /\ lapses < MaxLapses
  /\ lapses' = lapses + 1
  /\ wk' = [wk EXCEPT ![w].renewing = FALSE]
  /\ UNCHANGED <<runs, rowlock, steps, events, cancelling, sx, cancels,
                 batch_size, edges, installvars, shutdown_requested, queue_depth>>

\* Runs of the echo and the sleep blueprint whose renewal ticks may fail,
\* two workers that keep up, a crash.
RenewNext ==
  \/ Enqueue(LoopRefs, {DefaultPriority}, {0}, ExecRuns)
  \/ \E w \in Workers : ClaimStep(w)
  \/ \E w \in Workers : ExecuteStep(w)
  \/ \E w \in Workers : Renew(w)
  \/ \E w \in Workers : RenewFails(w)
  \/ \E w \in Workers : Crash(w)
  \/ TimelyTick(0)

RenewSpec == Init /\ [][RenewNext]_vars

\* Waiting while a renewal fails: one orchestrator run with one echo child,
\* with or without a timeout, two workers, a renewal tick that fails.
StaleInputs ==
  {[children |-> <<Spawned("k1", EchoRef)>>, mode |-> "all", timeout |-> t] :
     t \in {NULL, Some(1)}}

StaleNext ==
  \/ EnqueueOrch(StaleInputs)
  \/ \E w \in Workers : ClaimStep(w)
  \/ \E w \in Workers : ExecuteStep(w)
  \/ \E w \in Workers : OrchStep(w)
  \/ \E w \in Workers : Renew(w)
  \/ \E w \in Workers : RenewFails(w)
  \/ TimelyTick(0)

StaleSpec == Init /\ [][StaleNext]_vars

\* ------------------------------------------------------------ _collect_once
\* SELECT status, COUNT(*) FROM runs GROUP BY status: one row for each status
\* some run has.
CountOf(s) == Cardinality({r \in RunIds : runs[r].status = s})

GroupByStatus == {<<s, CountOf(s)>> : s \in {t \in Statuses : CountOf(t) > 0}}

\* One collection tick, on its own session.  queue_depth is the labelled
\* gauge of the collector's process: a label has no child until its first
\* set, then the value last set; the tick sets the gauges of the statuses
\* in the result and touches no other.
collect_once ==
  /\ queue_depth' = [s \in Statuses |->
       IF \E row \in GroupByStatus : row[1] = s
       THEN Some((CHOOSE row \in GroupByStatus : row[1] = s)[2])
       ELSE queue_depth[s]]
  /\ UNCHANGED <<runs, rowlock, steps, events, wk, cancelling, sx, lapses, cancels,
                 batch_size, edges, installvars, shutdown_requested>>

\* The collector beside the workers: one run that echoes or sleeps and
\* fails, two workers that keep up, a collection tick at any time.
MetricsNext ==
  \/ Enqueue(LoopRefs, {DefaultPriority}, {0}, ExecRuns)
  \/ \E w \in Workers : ClaimStep(w)
  \/ \E w \in Workers : ExecuteStep(w)
  \/ \E w \in Workers : Renew(w)
  \/ collect_once
  \/ TimelyTick(0)

MetricsSpec == Init /\ [][MetricsNext]_vars

\* ------------------------------------------------------------------ claims
\* A row some worker holds a lease on that has not run out.
UnexpiredLease(row) ==
  /\ row.status = "RUNNING"
  /\ row.lease_expires_at # NULL
  /\ Val(row.lease_expires_at) >= 0

\* w's claim statement returns rows in this step.
ClaimReturns(w) == wk[w].pc = "poll" /\ wk'[w].pc = "claimed"

\* C1: a run is handed to at most one worker per lease period.  A claim never
\* returns a row another claim holds and has not committed, and neither the
\* claim statement nor its commit takes a row that is RUNNING with an
\* unexpired lease.
C1_OneWorkerPerLease ==
  [][\A b \in Workers : \A r \in RunIds :
       /\ (ClaimReturns(b) /\ r \in wk'[b].claimed) =>
             /\ \A a \in Workers \ {b} : r \notin wk[a].claimed
             /\ ~UnexpiredLease(runs[r])
       /\ (ClaimCommit(b) /\ r \in wk[b].claimed) =>
             /\ ~UnexpiredLease(runs[r])
             /\ runs'[r].locked_by = Some(b)]_vars

\* C1 witness: worker a executes the run it claimed, on an unexpired lease,
\* and worker b has polled at that very instant and got nothing.
C1_Witness ==
  \E a \in Workers : \E b \in Workers \ {a} : \E r \in RunIds :
    /\ Executing(a) /\ wk[a].run = Some(r)
    /\ UnexpiredLease(runs[r]) /\ runs[r].locked_by = Some(a)
    /\ runs[r].locked_at = Some(0)
    /\ wk[b].pc = "sleep"

\* C2 as stated: no step changes the status of a run that is COMPLETED,
\* FAILED or CANCELLED.
C2_TerminalIsFinal ==
  [][\A r \in RunIds :
       runs[r].status \in Terminal => runs'[r].status = runs[r].status]_vars

\* The guard the claim gives for a worker's terminal write, at NOW() = 0.
CasGuard(row, w) ==
  /\ row.status = "RUNNING"
  /\ row.locked_by = Some(w)
  /\ row.lease_expires_at # NULL
  /\ Val(row.lease_expires_at) > 0

\* The columns a terminal write sets.
TerminalColumns(row) == <<row.status, row.outputs, row.error, row.completed_at>>

\* C3: the finalizer of worker w changes the run only under the guard
\* (RUNNING, locked_by = w, lease_expires_at > now), leaves status, outputs,
\* error and completed_at alone otherwise, and a run it writes had no terminal
\* write before.
C3_TerminalCas ==
  [][\A w \in Workers :
       (CasCompleted(w) \/ FailCas(w) \/ EmitCompleted(w)) =>
          LET r == Run(w) IN
          /\ ~CasGuard(runs[r], w) => TerminalColumns(runs'[r]) = TerminalColumns(runs[r])
          /\ runs'[r] # runs[r] =>
               /\ CasGuard(runs[r], w)
               /\ runs'[r].status \in {"COMPLETED", "FAILED"}
               /\ runs[r].completed_at = NULL
               /\ runs[r].outputs = NULL /\ runs[r].error = NULL]_vars

\* C3 witness: a run reclaimed and finalized by its second worker while the
\* first, which lost the lease, has reached its own finalizer.
C3_Witness ==
  \E a \in Workers : \E b \in Workers \ {a} : \E r \in RunIds :
    /\ runs[r].status \in {"COMPLETED", "FAILED"}
    /\ runs[r].locked_by = Some(b)
    /\ wk[a].run = Some(r)
    /\ wk[a].pc \in {"cas_completed", "fail_cas"}

\* w's session commits steps or events of the run it executes.
CommitsFor(w) ==
  StepStartCommit(w) \/ StepEndCommit(w) \/ StepFailCommit(w) \/ InlineCreate(w)

\* C6 as stated, with nobody cancelling: whenever worker w commits a step
\* row, a step status or an event for run r, r is RUNNING, locked by w, and
\* its lease has not run out.
C6_CommitsWhileOwner ==
  [][\A w \in Workers :
       (CommitsFor(w) /\ cancels = 0) =>
          /\ UnexpiredLease(runs[Run(w)])
          /\ runs[Run(w)].locked_by = Some(w)]_vars

\* C7 as stated: every RUNNING run has a locked_by and a lease_expires_at.
C7_RunningHasLease ==
  \A r \in RunIds :
    runs[r].status = "RUNNING" =>
      runs[r].locked_by # NULL /\ runs[r].lease_expires_at # NULL

\* w's claim statement returns nothing in this step.
ClaimReturnsEmpty(w) == wk[w].pc = "poll" /\ wk'[w].pc = "sleep"

\* Eligibility as the claim words it, at the claim's now = 0.
QueuedAndDue(row) ==
  /\ row.status = "QUEUED"
  /\ COALESCE4(row.run_at, row.queued_at, row.created_at, 0) <= 0

RunningAndExpired(row) ==
  /\ row.status = "RUNNING"
  /\ row.lease_expires_at # NULL
  /\ Val(row.lease_expires_at) < 0

\* C8: a claim returns a run only if it was QUEUED and due or RUNNING with an
\* expired lease - never one scheduled for later, CREATED or terminal - and
\* it returns nothing only if no such row is free of another claim's lock.
C8_ClaimsOnlyEligible ==
  [][\A w \in Workers :
       /\ ClaimReturns(w) =>
            \A r \in wk'[w].claimed :
              /\ QueuedAndDue(runs[r]) \/ RunningAndExpired(runs[r])
              /\ runs[r].status \notin {"CREATED"} \cup Terminal
              /\ ~(runs[r].status = "QUEUED" /\ runs[r].run_at # NULL
                   /\ Val(runs[r].run_at) > 0)
       /\ ClaimReturnsEmpty(w) =>
            \A r \in RunIds :
              (QueuedAndDue(runs[r]) \/ RunningAndExpired(runs[r]))
                 => rowlock[r] # NULL]_vars

\* C8 witness: a claim has just returned a run while another run, scheduled
\* for later, stays in the queue.
C8_Witness ==
  \E w \in Workers : \E r \in RunIds : \E q \in RunIds \ {r} :
    /\ wk[w].pc = "claimed" /\ wk[w].run = Some(r) /\ wk[w].txn_now = Some(0)
    /\ runs[q].status = "QUEUED" /\ Val(runs[q].run_at) > 0
    /\ rowlock[q] = NULL

\* C9 as stated: a claim evaluated at the instant a RUNNING run's lease
\* expires (lease_expires_at = now) selects it, so a poll does not come back
\* empty while such a run is free of locks.
C9_ExpiringNowIsReclaimable ==
  [][\A w \in Workers :
       ClaimReturnsEmpty(w) =>
         ~\E r \in RunIds :
            /\ runs[r].status = "RUNNING"
            /\ runs[r].lease_expires_at = Some(0)
            /\ rowlock[r] = NULL]_vars

\* The order of the claim: priority, expired-lease RUNNING before QUEUED,
\* run_at, queued_at, created_at, each ascending.
Precedes(a, b) ==
  LET ra == IF a.status = "RUNNING" THEN 0 ELSE 1
      rb == IF b.status = "RUNNING" THEN 0 ELSE 1
  IN \/ a.priority < b.priority
     \/ /\ a.priority = b.priority
        /\ \/ ra < rb
           \/ /\ ra = rb
              /\ \/ Val(a.run_at) < Val(b.run_at)
                 \/ /\ a.run_at = b.run_at
                    /\ \/ Val(a.queued_at) < Val(b.queued_at)
                       \/ /\ a.queued_at = b.queued_at
                          /\ Val(a.created_at) < Val(b.created_at)

\* C10: with batch_size = 1 and no row locked, the run a claim returns is a
\* minimum of the eligible runs under that order; so a QUEUED run of smaller
\* priority number goes before a reclaimable run of a larger one.
C10_ClaimOrder ==
  [][\A w \in Workers :
       (ClaimReturns(w) /\ batch_size = 1 /\ \A x \in RunIds : rowlock[x] = NULL) =>
          LET r == Val(wk'[w].run) IN
          \A t \in RunIds :
            (QueuedAndDue(runs[t]) \/ RunningAndExpired(runs[t]))
               => ~Precedes(runs[t], runs[r])]_vars

\* C10 witness: a claim has just returned an urgent QUEUED run and left a
\* reclaimable run of default priority behind.
C10_Witness ==
  \E w \in Workers : \E r \in RunIds : \E t \in RunIds \ {r} :
    /\ wk[w].pc = "claimed" /\ wk[w].run = Some(r) /\ wk[w].txn_now = Some(0)
    /\ batch_size = 1
    /\ runs[r].status = "QUEUED" /\ runs[r].priority = HighPriority
    /\ RunningAndExpired(runs[t]) /\ runs[t].priority = DefaultPriority
    /\ rowlock[t] = NULL

C5_ClaimedRunsEnd ==
  \A r \in RunIds :
    (runs[r].status = "RUNNING") ~> (runs[r].status \in Terminal)

\* w's renewal task has seen zero rows and returned while w still executes.
RenewalLost(w) == Executing(w) /\ ~wk[w].renewing

LostLease(w) == wk[w].pc = "fail_cas" /\ wk[w].exc = "LostLeaseError"

\* C12 as stated: when LostLeaseError has been raised in execute_run on
\* worker w, w makes no terminal transition for the run (no row changes)
\* and records no run.completed or run.failed event.
C12_LostLeaseLeavesRun ==
  [][\A w \in Workers :
       ((LostLease(w) /\ FailCas(w)) \/ EmitCompleted(w)) =>
          runs' = runs /\ events' = events]_vars

\* The idx values of the committed steps of run r.
StepIdxs(r) == {steps[r][i].idx : i \in DOMAIN steps[r]}

\* C13: in every committed state the steps of a run have pairwise distinct
\* idx values, and these are exactly 0 .. k-1 when the run has k steps.
C13_StepIdxContiguous ==
  \A r \in RunIds :
    /\ \A i, j \in DOMAIN steps[r] : steps[r][i].idx = steps[r][j].idx => i = j
    /\ StepIdxs(r) = 0 .. (Len(steps[r]) - 1)

\* A run whose steps were committed by two workers: a re-execution after a
\* reclaim added a step to the one of the earlier attempt.
C13_Witness ==
  \E r \in RunIds : \E i, j \in DOMAIN steps[r] :
    /\ steps[r][i].by # steps[r][j].by
    /\ steps[r][i].idx < steps[r][j].idx

\* Run r has a committed event of one of the names for the step idx.
StepEvent(r, idx, names) ==
  \E i \in DOMAIN events[r] :
    events[r][i].name \in names /\ events[r][i].step = Some(idx)

\* Run r has a committed step idx in one of the statuses.
StepIn(r, idx, sts) ==
  \E i \in DOMAIN steps[r] : steps[r][i].idx = idx /\ steps[r][i].status \in sts

Started == {"step.started", "xyn.step.started"}
Completed == {"step.completed", "xyn.step.completed"}
Failed == {"step.failed", "xyn.step.failed"}

\* C14 as stated: in every committed state a step is RUNNING or later only
\* with its step.started event, COMPLETED only with its step.completed
\* event, FAILED only with its step.failed event, and none of these events
\* is there without the step status it reports.
C14_StepWithEvent ==
  \A r \in RunIds :
    /\ \A i \in DOMAIN steps[r] :
         LET st == steps[r][i] IN
         /\ st.status \in {"RUNNING", "COMPLETED", "FAILED"} =>
              StepEvent(r, st.idx, Started)
         /\ st.status = "COMPLETED" => StepEvent(r, st.idx, Completed)
         /\ st.status = "FAILED" => StepEvent(r, st.idx, Failed)
    /\ \A i \in DOMAIN events[r] :
         LET e == events[r][i] IN
         /\ e.name \in Started =>
              StepIn(r, Val(e.step), {"RUNNING", "COMPLETED", "FAILED"})
         /\ e.name \in Completed => StepIn(r, Val(e.step), {"COMPLETED"})
         /\ e.name \in Failed => StepIn(r, Val(e.step), {"FAILED"})

\* The names of the events committed for run r, in order.
EventNames(r) == [i \in DOMAIN events[r] |-> events[r][i].name]

\* Run r was executed once, by a worker in time, with nobody cancelling, and
\* that execution is over.
ExecutedOnce(r) ==
  /\ lapses = 0 /\ cancels = 0
  /\ \A w \in Workers : Alive(w) /\ wk[w].run # Some(r)
  /\ Len(steps[r]) = 1

\* C15 as stated: an echo run executed once by a worker ends COMPLETED with
\* its outputs set, and the events recorded for it are exactly run.started,
\* step.started, step.progress, step.completed, run.completed, in that order.
C15_HappyPathEvents ==
  \A r \in RunIds :
    (runs[r].name = EchoRef /\ ExecutedOnce(r)) =>
       /\ runs[r].status = "COMPLETED"
       /\ runs[r].outputs # NULL
       /\ EventNames(r) = <<"run.started", "step.started", "step.progress",
                            "step.completed", "run.completed">>

\* C16 as stated: when the blueprint has raised and its worker still owns
\* the run, the run ends FAILED with the error of that exception, a
\* run.failed event is recorded for it, and the exception that leaves
\* execute_run is the blueprint's own.
C16_BlueprintFailure ==
  [][\A w \in Workers :
       (/\ FailCas(w)
        /\ wk[w].exc = "Exception"
        /\ UnexpiredLease(runs[Run(w)])
        /\ runs[Run(w)].locked_by = Some(w)) =>
          /\ runs'[Run(w)].status = "FAILED"
          /\ runs'[Run(w)].error = Some("Exception")
          /\ \E i \in DOMAIN events'[Run(w)] : events'[Run(w)][i].name = "run.failed"
          /\ Reraised(runs[Run(w)], Some(w), "Exception") = {"Exception"}]_vars

\* The runs whose parent is p, and the keys p has edges for.
ChildrenOf(p) == {c \in RunIds : runs[c].parent_run_id = Some(p)}
KeysOf(p) == {e.child_key : e \in {x \in edges : x.parent = p}}

\* Worker w is executing an orchestrator run.
Orchestrating(w) == wk[w].run # NULL /\ runs[Run(w)].name = OrchestratorRef

\* C17: however often spawn_run is called with a key for one parent, in one
\* execution or in re-executions after a reclaim, there is one edge for
\* (parent, key) and one child run per key, and every call has returned the
\* child of that edge.
C17_SpawnIdempotent ==
  /\ \A e1, e2 \in edges :
       (e1.parent = e2.parent /\ e1.child_key = e2.child_key) => e1 = e2
  /\ \A p \in RunIds : Cardinality(ChildrenOf(p)) = Cardinality(KeysOf(p))
  /\ \A w \in Workers :
       Orchestrating(w) =>
         \A i \in DOMAIN wk[w].kids :
           \E e \in EdgesFor(Run(w), Children(w)[i].child_key) :
             e.child_run_id = wk[w].kids[i]

\* spawn_run has returned twice for one key within one execution, and once
\* more in another worker's execution of the same run.
C17_Witness ==
  \E w, o \in Workers :
    /\ w # o /\ Orchestrating(w) /\ wk[o].run = wk[w].run
    /\ Len(wk[w].kids) = 2 /\ Len(wk[o].kids) >= 1
    /\ Children(w)[1].child_key = Children(w)[2].child_key

\* C18: a spawn_run that passed the fast-path lookup and then loses the race
\* at its commit inserts nothing: runs and edges stay as the winner left
\* them, with one edge and one child for the key; what its session had
\* flushed is rolled back, and it returns the child every other caller of
\* the key got.
C18_RacedSpawn ==
  [][\A w \in Workers :
       (/\ SpawnCommit(w)
        /\ EdgesFor(Run(w), ChildSpec(w).child_key) # {}) =>
          LET p == Run(w)
              k == ChildSpec(w).child_key
              n == Len(wk[w].kids) + 1
          IN /\ runs' = runs /\ edges' = edges
             /\ Cardinality(EdgesFor(p, k)) = 1
             /\ Cardinality({c \in ChildrenOf(p) :
                               \E e \in EdgesFor(p, k) : e.child_run_id = c}) = 1
             /\ wk'[w].pend = <<>>
             /\ Len(wk'[w].kids) = n
             /\ \E e \in EdgesFor(p, k) : e.child_run_id = wk'[w].kids[n]
             /\ \A o \in Workers \ {w} :
                  (wk[o].run = wk[w].run /\ Len(wk[o].kids) >= n) =>
                     wk[o].kids[n] = wk'[w].kids[n]]_vars

\* A worker has lost the race, while the winner is still after its commit.
C18_Witness ==
  \E w, o \in Workers :
    /\ wk[w].pc = "spawn_raced" /\ wk[o].pc = "spawn_emit"
    /\ wk[o].run = wk[w].run /\ wk[o].kids = wk[w].kids

\* C19: in every committed state run c has parent_run_id = p exactly when
\* there is an edge (p, c), and the runs an edge names exist: no child
\* without its edge, no edge without its child, and an edge's child points
\* at the edge's parent.
C19_ChildWithEdge ==
  /\ \A p, c \in RunIds :
       (runs[c].parent_run_id = Some(p)) <=>
         (\E e \in edges : e.parent = p /\ e.child_run_id = c)
  /\ \A e \in edges : Exists(e.parent) /\ Exists(e.child_run_id)

\* A spawn has lost the race after the winner, whose worker has died since,
\* committed child and edge.
C19_Witness ==
  \E w, o \in Workers :
    /\ wk[w].pc = "spawn_raced" /\ wk[o].pc = "dead"
    /\ \E e \in edges : e.parent = Run(w)

\* The runs listed in ids, and those of them with a status in sts.
Listed(ids) == {ids[i] : i \in DOMAIN ids}
ListedIn(ids, sts) == {c \in Listed(ids) : runs[c].status \in sts}

\* Worker w's poll got past the ownership check and the timeout and read
\* the statuses.
Polled(w) ==
  WaitPoll(w) /\ wk'[w].pc # "fail_cas" /\ Val(wk'[w].waited).do # "timeout"

\* C20: a poll of wait_runs(ids, policy = all) returns only when every
\* listed run is COMPLETED, with completed = the listed runs and failed
\* empty; it raises when a listed run is FAILED or CANCELLED, whatever the
\* others are; and otherwise it sleeps and polls again.
C20_WaitAll ==
  [][\A w \in Workers :
       (Polled(w) /\ Mode(w) = "all") =>
         LET ids == wk[w].kids
             failed == ListedIn(ids, {"FAILED", "CANCELLED"})
             res == Val(wk'[w].waited)
         IN /\ res.do = "return" =>
                 /\ ListedIn(ids, {"COMPLETED"}) = Listed(ids)
                 /\ res.completed = Listed(ids)
                 /\ res.failed = {}
                 /\ wk'[w].pc = "step_end_commit"
            /\ failed # {} <=> res.do = "raise"
            /\ res.do = "raise" => wk'[w].pc = "step_fail_commit"
            /\ res.do \notin {"return", "raise"} => wk'[w].pc = "wait_sleep"]_vars

\* A poll has raised on a failed or cancelled child while another listed
\* child was still queued or running.
C20_Witness ==
  \E w \in Workers :
    /\ Orchestrating(w) /\ wk[w].pc = "step_fail_commit" /\ wk[w].stage = 1
    /\ wk[w].waited # NULL /\ Val(wk[w].waited).do = "raise"
    /\ ListedIn(wk[w].kids, {"QUEUED", "RUNNING"}) # {}

\* C21: a poll of wait_runs(ids, policy = any) returns exactly when a listed
\* run is COMPLETED, whatever the others are, with the listed runs that are
\* COMPLETED and those that are FAILED or CANCELLED at that poll; it raises
\* only when every listed run is FAILED or CANCELLED; and otherwise it
\* sleeps and polls again.
C21_WaitAny ==
  [][\A w \in Workers :
       (Polled(w) /\ Mode(w) = "any") =>
         LET ids == wk[w].kids
             completed == ListedIn(ids, {"COMPLETED"})
             failed == ListedIn(ids, {"FAILED", "CANCELLED"})
             res == Val(wk'[w].waited)
         IN /\ completed # {} <=> res.do = "return"
            /\ res.do = "return" =>
                 /\ res.completed = completed
                 /\ res.failed = failed
                 /\ wk'[w].pc = "step_end_commit"
            /\ res.do = "raise" =>
                 /\ failed = Listed(ids)
                 /\ wk'[w].pc = "step_fail_commit"
            /\ res.do \notin {"return", "raise"} => wk'[w].pc = "wait_sleep"]_vars

\* A poll in mode any has returned on one completed child while the other
\* listed child was still queued or running.
C21_Witness ==
  \E w \in Workers :
    /\ Orchestrating(w) /\ Mode(w) = "any"
    /\ wk[w].pc = "step_end_commit" /\ wk[w].stage = 1
    /\ wk[w].waited # NULL /\ Val(wk[w].waited).do = "return"
    /\ ListedIn(wk[w].kids, {"QUEUED", "RUNNING"}) # {}

\* Worker w is in the orchestrator's wait_runs call.
Waiting(w) ==
  /\ Orchestrating(w) /\ wk[w].stage = 1
  /\ wk[w].pc \in {"body", "wait_sleep"}

\* C22 as stated: a wait_runs call with a timeout (any value >= 0) ends,
\* whatever the children do, and an iteration that starts with more time
\* elapsed than the timeout raises TimeoutError.
C22_TimeoutTerminates ==
  /\ \A w \in Workers : (Waiting(w) /\ Timeout(w) # NULL) ~> ~Waiting(w)
  /\ [][\A w \in Workers :
          (/\ WaitPoll(w) /\ wk'[w].pc # "fail_cas"
           /\ Timeout(w) # NULL /\ Elapsed(w) > Val(Timeout(w))) =>
             wk'[w].exc = "TimeoutError"]_vars

\* C23 as stated: the cancel endpoint accepts a request for a run exactly
\* when the run is CREATED, QUEUED or RUNNING, and rejects it when the run is
\* COMPLETED, FAILED or CANCELLED.
C23_CancelAccepted ==
  \A r \in RunIds :
    Exists(r) =>
      (Cancellable(runs[r]) <=> runs[r].status \in {"CREATED", "QUEUED", "RUNNING"})

\* A worker inside the with-block of advisory_lock_context.
InLockedSection(w) == wk[w].held

\* C24: advisory_lock_context releases the lock on every exit path: when the
\* with-block is left, by return or by exception, the session no longer
\* holds the key and any other session's try_advisory_lock is granted; a
\* session holds the key only inside its with-block.  In fail-fast mode a
\* key held by another session raises without entering the body and without
\* touching the holder's lock.
C24_LockReleased ==
  /\ [][\A w \in Workers :
          Unlock(w) =>
            /\ advisory_locks' # Some(w)
            /\ \A o \in Workers \ {w} :
                 advisory_locks' = NULL \/ advisory_locks' = Some(o)]_vars
  /\ [][\A w \in Workers :
          (advisory_locks = Some(w) /\ ~InLockedSection(w)') =>
            advisory_locks' # Some(w)]_vars
  /\ [][\A w \in Workers :
          (TryLock(w) /\ advisory_locks # NULL /\ advisory_locks # Some(w)) =>
            /\ advisory_locks' = advisory_locks
            /\ ~InLockedSection(w)'
            /\ wk'[w].pc = "fail_cas"
            /\ wk'[w].exc \in {"PackInstallationInProgressError", "LostLeaseError"}]_vars

\* One run has left the with-block by return and completed, a worker has
\* left it by exception, and the key is free.
C24_Witness ==
  \E w \in Workers, r \in RunIds :
    /\ runs[r].name = InstallRef /\ runs[r].status = "COMPLETED"
    /\ wk[w].pc = "fail_cas" /\ wk[w].exc = "PackAlreadyInstalledError"
    /\ ~InLockedSection(w)
    /\ advisory_locks = NULL

\* The errors of a run that finds the (env_id, pack_ref) taken.
TakenErrors ==
  {"PackInstallationInProgressError", "PackAlreadyInstalledError",
   "PackInstallationFailedError"}

\* A worker in or past the step that runs the system installation.
AtSideEffects(w) == InLockedSection(w) /\ wk[w].stage >= 3

\* C25: under any interleaving of install runs of one (env_id, pack_ref), at
\* most one installation row exists, at most one worker is inside the locked
\* section, a row stays claimed by the run whose insert made it, only that
\* run goes on to the system installation, and a run that is refused the
\* lock or whose insert meets the row fails with an InProgress,
\* AlreadyInstalled or PreviouslyFailed error, the row untouched.
C25_SingleClaim ==
  /\ [](/\ Cardinality(InstallationsOf(EnvId, PackRef)) <= 1
        /\ Cardinality({w \in Workers : InLockedSection(w)}) <= 1
        /\ \A w \in Workers :
             AtSideEffects(w) =>
               \E i \in InstallationsOf(EnvId, PackRef) : i.installed_by_run_id = Run(w))
  /\ [][\A i \in pack_installations :
          \E j \in pack_installations' :
            j.id = i.id /\ j.installed_by_run_id = i.installed_by_run_id]_vars
  /\ [][\A w \in Workers :
          (ClaimInstallation(w) /\ InstallationsOf(EnvId, PackRef) # {}) =>
            /\ pack_installations' = pack_installations
            /\ wk'[w].pc = "step_fail"
            /\ wk'[w].exc \in TakenErrors]_vars
  /\ [][\A w \in Workers :
          (ClaimInstallation(w) /\ InstallationsOf(EnvId, PackRef) = {}) =>
            /\ wk'[w].pc = "step_end"
            /\ \E i \in pack_installations' :
                 /\ i.installed_by_run_id = Run(w) /\ i.status = "INSTALLING"
                 /\ pack_installations' = {i}]_vars
  /\ [][\A w \in Workers :
          (TryLock(w) /\ \E o \in Workers \ {w} : InLockedSection(o)) =>
            /\ ~InLockedSection(w)'
            /\ wk'[w].pc = "fail_cas"
            /\ wk'[w].exc \in TakenErrors \cup {"LostLeaseError"}]_vars

\* One run is in its system installation step, the row claimed by it, while
\* the worker of another run has been refused the lock.
C25_Witness ==
  \E w \in Workers : \E o \in Workers \ {w} :
    /\ AtSideEffects(o) /\ wk[o].pc = "inline_run"
    /\ \E i \in pack_installations : i.installed_by_run_id = Run(o)
    /\ wk[w].pc = "fail_cas" /\ wk[w].run # wk[o].run
    /\ wk[w].exc = "PackInstallationInProgressError"

\* A string column that is neither NULL nor empty.
NonEmpty(x) == x # NULL /\ Val(x) # ""

\* C26: a row becomes INSTALLED only from INSTALLING, only in the finalize
\* step of the run that is the row's installed_by_run_id, and only with a
\* non-empty schema_name and pack version; an INSTALLED row has its
\* installed_version, schema_name and installed_at set.
C26_InstalledInvariant ==
  /\ [](\A i \in pack_installations :
          i.status = "INSTALLED" =>
            /\ NonEmpty(i.installed_version)
            /\ NonEmpty(i.schema_name)
            /\ i.installed_at # NULL)
  /\ [][\A j \in pack_installations' :
          (j.status = "INSTALLED" /\ j \notin pack_installations) =>
            \E i \in pack_installations :
              /\ i.id = j.id
              /\ i.status = "INSTALLING"
              /\ NonEmpty(i.schema_name)
              /\ packs # NULL /\ Val(packs).version # ""
              /\ \E w \in Workers :
                   Finalize(w) /\ Run(w) = i.installed_by_run_id]_vars

\* The claiming run has just finalized its row.
C26_Witness ==
  \E w \in Workers :
    /\ InLockedSection(w) /\ wk[w].stage = InstallSteps /\ wk[w].pc = "step_end"
    /\ \E i \in pack_installations :
         i.status = "INSTALLED" /\ i.installed_by_run_id = Run(w)

\* The pair's installation is INSTALLED.
Installed == \E i \in InstallationsOf(EnvId, PackRef) : i.status = "INSTALLED"

\* C27: an install run that finds the pair's installation INSTALLED goes on
\* to return the installation's (version, schema_name): its "Create
\* installation record" step raises nothing and writes nothing to the row,
\* and no write to the row follows.
C27_RerunReturns ==
  /\ [][\A w \in Workers :
          (ClaimInstallation(w) /\ Installed) =>
            /\ pack_installations' = pack_installations
            /\ wk'[w].pc = "step_end"]_vars
  /\ [][Installed => pack_installations' = pack_installations]_vars

\* A run the claim of worker w has made RUNNING with a lease that has not
\* run out, and that w is not executing.
LeftClaimed(w, r) ==
  /\ runs[r].status = "RUNNING"
  /\ runs[r].locked_by = Some(w)
  /\ runs[r].lease_expires_at # NULL /\ Val(runs[r].lease_expires_at) > 0
  /\ wk[w].run # Some(r)

\* C29: for every batch size, the runs a claim_run call makes RUNNING are the
\* one run it returns, and no run is RUNNING under an unexpired lease of a
\* worker that is not executing it.
C29_ClaimedIsReturned ==
  /\ [][\A w \in Workers : ClaimCommit(w) => wk[w].claimed = {Run(w)}]_vars
  /\ [](\A w \in Workers : \A r \in RunIds : ~LeftClaimed(w, r))

\* A run worker w has claimed and not brought to its end.
Unfinished(w, r) == runs[r].status = "RUNNING" /\ runs[r].locked_by = Some(w)

\* C28: once the shutdown flag of a worker is set, the worker issues a claim
\* only if it was already past the loop's test; it leaves the loop only
\* between two runs, never in the middle of an execution; and when it has
\* left, no run it claimed is still unfinished.
C28_GracefulShutdown ==
  /\ [][\A w \in Workers :
          (shutdown_requested[w] /\ (ClaimStmt(w) \/ ClaimEmpty(w))) =>
            wk[w].pc = "checked"]_vars
  /\ [][\A w \in Workers :
          (wk[w].pc # "stopped" /\ wk'[w].pc = "stopped") =>
            wk[w].pc = "poll" /\ wk[w].run = NULL]_vars
  /\ [](\A w \in Workers :
          wk[w].pc = "stopped" => \A r \in RunIds : ~Unfinished(w, r))

\* A worker inside wait_runs without a timeout, every run it waits for
\* still QUEUED.
BlockedOnQueued(w) ==
  /\ Waiting(w)
  /\ Timeout(w) = NULL
  /\ \A i \in DOMAIN wk[w].kids : runs[wk[w].kids[i]].status = "QUEUED"

\* C30: the worker pool is never exhausted by waiting orchestrators: some
\* worker of the pool is not blocked in wait_runs on QUEUED children, and
\* the children a waiting orchestrator has spawned are eventually claimed.
C30_NoWorkerExhaustion ==
  /\ [](\E w \in Workers : Alive(w) /\ ~BlockedOnQueued(w))
  /\ \A w \in Workers :
       BlockedOnQueued(w) ~> ~BlockedOnQueued(w)

\* The ownership check of worker w can only fail.
NotOwner(w) == Owns(w) = {FALSE}

\* C31: a worker that no longer owns the parent run commits no child run and
\* no run_edges row in spawn_run.
C31_SpawnByOwner ==
  [][\A w \in Workers :
       (SpawnCommit(w) /\ NotOwner(w)) => (runs' = runs /\ edges' = edges)]_vars

\* C32: every step of a COMPLETED or FAILED run is in a terminal step
\* status.
C32_StepsClosed ==
  \A r \in RunIds :
    runs[r].status \in {"COMPLETED", "FAILED"} =>
      \A i \in DOMAIN steps[r] :
        steps[r][i].status \in {"COMPLETED", "FAILED", "SKIPPED"}

\* Worker w executes a run that is RUNNING and locked by it.
LiveOwner(w) == Executing(w) /\ RenewMatches(runs[Run(w)], w)

\* C33: the renewal of a run stops, while its worker goes on executing it,
\* only when the worker is no longer its owner; and the lease of a worker
\* that executes a run it owns has not run out.
C33_RenewalGoesOn ==
  /\ [][\A w \in Workers :
          (wk[w].renewing /\ ~wk'[w].renewing /\ Executing(w)') =>
            ~LiveOwner(w)]_vars
  /\ [](\A w \in Workers :
          LiveOwner(w) => Val(runs[Run(w)].lease_expires_at) > 0)

\* The installation of the pair is INSTALLING and the run that claimed it
\* has reached a terminal status.
Orphaned ==
  \E i \in InstallationsOf(EnvId, PackRef) :
    i.status = "INSTALLING" /\ runs[i.installed_by_run_id].status \in Terminal

\* C34: an installation row whose claiming run has reached a terminal status
\* does not remain INSTALLING.
C34_InstallingEnds == Orphaned ~> ~Orphaned

\* The run of worker w is RUNNING and locked by another worker.
Reclaimed(w) ==
  /\ runs[Run(w)].status = "RUNNING"
  /\ runs[Run(w)].locked_by \notin {NULL, Some(w)}

\* C35: a renewal by worker w sets the lease expiry of its run, and nothing
\* else of any run, when the run is RUNNING and locked by w, and goes on;
\* otherwise it changes no run and the renewal loop of w ends.
C35_RenewFrame ==
  [][\A w \in Workers :
       Renew(w) =>
         IF runs[Run(w)].status = "RUNNING" /\ runs[Run(w)].locked_by = Some(w)
         THEN /\ runs' = [runs EXCEPT ![Run(w)].lease_expires_at =
                            runs'[Run(w)].lease_expires_at]
              /\ runs'[Run(w)].lease_expires_at # NULL
              /\ wk'[w].renewing
         ELSE /\ runs' = runs
              /\ ~wk'[w].renewing]_vars

\* A former owner, still suspended in the step body, whose late renewal found
\* the run reclaimed by another worker.
C35_Witness ==
  \E w \in Workers : Suspended(w) /\ ~wk[w].renewing /\ Reclaimed(w)

\* The step worker w is in, of the run it executes, has the given status in
\* the committed rows st.
StepIs(st, w, status) ==
  \E i \in DOMAIN st[Run(w)] :
    /\ st[Run(w)][i].idx = Val(wk[w].step)
    /\ st[Run(w)][i].by = w
    /\ st[Run(w)][i].status = status

\* The writes of the failure boundary of the step worker w is in.
FailureOps(w) ==
  {StepUpdateOp(Run(w), Val(wk[w].step), "FAILED"),
   EventOp(Run(w), "step.failed", wk[w].step)}

\* C36: when the body of a step has raised, the exit of the step keeps the
\* body's exception; a worker that owns the run writes FAILED and step.failed
\* and commits them together, after which the step row is FAILED and the
\* event is the last of the run; a worker that does not own it commits
\* nothing, drops its pending writes and leaves the step rows as they were.
C36_StepFailure ==
  [][\A w \in Workers :
       /\ (wk[w].pc = "step_fail" /\ wk'[w].pc \notin {"step_fail", "dead"}) =>
            /\ wk'[w].exc = wk[w].exc
            /\ steps' = steps /\ events' = events /\ runs' = runs
            /\ Owns(w) = {TRUE} => wk'[w].pc = "step_fail_commit"
            /\ Owns(w) = {FALSE} => wk'[w].pc = "fail_cas"
            /\ IF wk'[w].pc = "step_fail_commit"
               THEN /\ TRUE \in Owns(w)
                    /\ FailureOps(w) \subseteq
                         {wk'[w].pend[i] : i \in DOMAIN wk'[w].pend}
               ELSE /\ FALSE \in Owns(w)
                    /\ wk'[w].pc = "fail_cas"
                    /\ wk'[w].pend = <<>>
       /\ (wk[w].pc = "step_fail_commit"
             /\ wk'[w].pc \notin {"step_fail_commit", "dead"}) =>
            /\ wk'[w].pc = "fail_cas"
            /\ wk'[w].exc = wk[w].exc
            /\ runs' = runs
            /\ StepIs(steps', w, "FAILED")
            /\ events'[Run(w)][Len(events'[Run(w)])] =
                 [name |-> "step.failed", step |-> wk[w].step, by |-> w]]_vars

\* The last step row of run r is RUNNING.
LastStepRunning(r) ==
  steps[r] # <<>> /\ steps[r][Len(steps[r])].status = "RUNNING"

\* The last step row of run r is FAILED and its last event is step.failed.
LastStepFailed(r) ==
  /\ steps[r] # <<>> /\ steps[r][Len(steps[r])].status = "FAILED"
  /\ events[r] # <<>> /\ events[r][Len(events[r])].name = "step.failed"

\* One worker has left a failed step as owner, its step FAILED, and another
\* has left one of a run cancelled meanwhile, its step still RUNNING, with
\* the error its step body raised.
C36_Witness ==
  \E w \in Workers :
    \E o \in Workers \ {w} :
      /\ wk[w].pc = "fail_cas" /\ wk[o].pc = "fail_cas"
      /\ Run(w) # Run(o)
      /\ LastStepFailed(Run(w))
      /\ LastStepRunning(Run(o))
      /\ runs[Run(o)].status = "CANCELLED"
      /\ wk[o].exc \in TakenErrors \cup {"ValueError"}

\* The ownership check of worker w's run against the wall clock.
OwnsNow(w) == assert_ownership(Some(w), runs[Run(w)], 0)

\* C37: a poll iteration of wait_runs that begins when the worker does not
\* own its run (the lease has run out, the run is reclaimed or cancelled)
\* raises LostLeaseError.
C37_PollRaisesLostLease ==
  [][\A w \in Workers :
       (WaitPoll(w) /\ OwnsNow(w) = {FALSE}) =>
         (wk'[w].pc = "fail_cas" /\ wk'[w].exc = "LostLeaseError")]_vars

\* C38: a poll of wait_runs(ids, policy = all) that reads the statuses when
\* every run named in ids is COMPLETED returns, whether or not ids names a
\* run more than once.
C38_ReturnsOnDistinct ==
  [][\A w \in Workers :
       (/\ Polled(w)
        /\ Mode(w) = "all"
        /\ ListedIn(wk[w].kids, {"COMPLETED"}) = Listed(wk[w].kids)) =>
         Val(wk'[w].waited).do = "return"]_vars

\* The value a scrape shows for status s: 0 while the gauge has no child.
Depth(g, s) == IF g[s] = NULL THEN 0 ELSE Val(g[s])

\* C39: after a collection tick the gauge of every run status is the number
\* of runs in that status, 0 included.
C39_GaugeIsCount ==
  [][collect_once =>
       \A s \in Statuses :
         Depth(queue_depth', s) = Cardinality({r \in RunIds : runs'[r].status = s})]_vars

====
